---- MODULE Spec2Model ----
(***************************************************************************)
(* Congestion monitor: the scorer (src/src/api/congestion.py), the EMA     *)
(* baseline updater (same file) and the ping ingestion path with its       *)
(* flush of completed buckets (src/src/api/main.py).                       *)
(*                                                                         *)
(* Numbers.  The program computes with Python floats (IEEE doubles), and  *)
(* so does the model: a float is the triple <<s, m, e>> of its sign, its   *)
(* odd mantissa and its exponent, and +, -, * and / give the double        *)
(* nearest to the exact result, a tie going to the even neighbour.  The    *)
(* powers x ** 0.5 and x ** 2 go through the C library's pow, which is     *)
(* accurate to less than one unit in the last place without being          *)
(* correctly rounded: x ** 0.5 and x ** 2 are the exact result when that   *)
(* is a double and otherwise either of the two doubles around it, and the  *)
(* definitions that use them give the set of the outcomes.  An absent      *)
(* Optional[float] (Python None) is <<>>.  The                             *)
(* properties that speak of the real numbers the doubles stand for are     *)
(* stated with the exact operations on such triples (DyAdd, DyMul, ...).   *)
(*                                                                         *)
(* The specifications share the variables; each holds the variables of     *)
(* the others at their idle values.                                        *)
(*   SpecScore    : calculate_congestion_level applied to drawn inputs     *)
(*   SpecBaseline : concurrent update_baseline_with_bucket calls on one    *)
(*                  cell's durable row                                     *)
(*   Spec         : concurrent create_ping requests and a manual history   *)
(*                  save on one cell's ephemeral (Redis) keys              *)
(*   SpecZScore   : calculate_z_score applied to drawn inputs              *)
(*   SpecBucket   : current_bucket applied to drawn pairs of timestamps    *)
(*   SpecLookup   : get_baseline against a store that may fail, and the    *)
(*                  scoring of its result                                  *)
(*   SpecOutage   : pings and congestion reads while Redis goes down and   *)
(*                  comes back                                             *)
(*   SpecTtl      : pings and congestion reads while time passes and keys  *)
(*                  expire                                                 *)
(*   SpecRate     : check_rate_limit of one device while time passes       *)
(*   SpecMarker   : the flush marker against the bucket's device set       *)
(*                  while time passes                                      *)
(*   SpecBatch    : create_ping and create_pings_batch requests            *)
(*   SpecAlert    : create_ping on a bucket one device below the alert     *)
(*                  threshold                                              *)
(***************************************************************************)
EXTENDS Integers, Sequences, FiniteSets, TLC

VARIABLES
    \* ---- scorer (SpecScore) ----
    current_count,      \* int: unique devices in the current bucket
    current_avg_speed,  \* float or None
    baseline,           \* CellBaseline handed to the scorer
    verdict,            \* what calculate_congestion_level returned
    \* ---- baseline updater (SpecBaseline) ----
    hex_baselines,      \* durable table, restricted to one cell: {} or {row}
    upd,                \* per worker: its update_baseline_with_bucket call
    updates_started,    \* number of calls started so far
    \* ---- ping ingestion (Spec) ----
    redis_sets,         \* bucket -> set of device ids (cell:<c>:bucket:<b>)
    redis_speeds,       \* bucket -> sequence of speeds (...:speeds)
    redis_flags,        \* set of buckets whose ...:history_saved key exists
    redis_ttl,          \* key -> seconds to live (-1: no expiry set)
    ratelimit,          \* device -> value of its ratelimit:<device> counter
    stream,             \* congestion:events, the events in order
    bucket_history,     \* durable log: sequence of saved bucket rows
    req,                \* per worker: its create_ping request
    pings_started,      \* number of requests started so far
    recorded,           \* history: bucket -> device -> pings SADDed so far
    \* ---- the other specifications ----
    z_call,             \* SpecZScore: one calculate_z_score call
    bucket_call,        \* SpecBucket: current_bucket of two timestamps
    lookup,             \* SpecLookup: one get_baseline call
    redis_up,           \* whether Redis answers commands
    rd,                 \* the congestion read request (GET /v1/congestion)
    hs,                 \* the manual save request (POST /v1/history/save)
    quiet,              \* history: bucket -> seconds since a ping last wrote
                        \* to it, counted up to the bucket TTL
    accepted            \* history: device -> {<<age in seconds, pings not
                        \* answered 429 at that age>>}, ages within the window

scoreVars == <<current_count, current_avg_speed, baseline, verdict>>
baseVars  == <<hex_baselines, upd, updates_started>>
pingVars  == <<redis_sets, redis_speeds, redis_flags, redis_ttl, ratelimit,
               stream, bucket_history, req, pings_started, recorded>>
callVars  == <<z_call, bucket_call, lookup, redis_up, rd, hs>>
auxVars   == <<callVars, quiet, accepted>>
vars      == <<scoreVars, baseVars, pingVars, auxVars>>

(***************************************************************************)
(* Natural numbers of any size: the sequence of their base-2^14 digits,    *)
(* least significant first, without leading zero digits; <<>> is 0.        *)
(***************************************************************************)
Base == 2 ^ 14

Min(a, b) == IF a <= b THEN a ELSE b

Max(a, b) == IF a >= b THEN a ELSE b

Abs(n) == IF n < 0 THEN -n ELSE n

Zeros(q) == [i \in 1..q |-> 0]

RECURSIVE BTrim(_)
BTrim(a) ==
    IF Len(a) = 0 \/ a[Len(a)] # 0 THEN a
    ELSE BTrim(SubSeq(a, 1, Len(a) - 1))

RECURSIVE BCarry(_, _, _)
\* the digits from position i on of the number with digit sums a and carry
\* c into position i
BCarry(a, i, c) ==
    IF i > Len(a)
    THEN IF c = 0 THEN <<>> ELSE <<c % Base>> \o BCarry(a, i, c \div Base)
    ELSE <<(a[i] + c) % Base>> \o BCarry(a, i + 1, (a[i] + c) \div Base)

BNat(n) == BCarry(<<>>, 1, n)

BAdd(a, b) ==
    BCarry([i \in 1..Max(Len(a), Len(b)) |->
               (IF i <= Len(a) THEN a[i] ELSE 0)
               + (IF i <= Len(b) THEN b[i] ELSE 0)], 1, 0)

\* a - b for a >= b
BSub(a, b) ==
    BTrim(BCarry([i \in 1..Len(a) |->
                     a[i] - (IF i <= Len(b) THEN b[i] ELSE 0)], 1, 0))

\* a * k for 0 <= k <= 2^16
BMulSmall(a, k) == BTrim(BCarry([i \in 1..Len(a) |-> a[i] * k], 1, 0))

RECURSIVE BMulFrom(_, _, _)
BMulFrom(a, b, i) ==
    IF i > Len(a) THEN <<>>
    ELSE BAdd(IF a[i] = 0 THEN <<>> ELSE Zeros(i - 1) \o BMulSmall(b, a[i]),
              BMulFrom(a, b, i + 1))

RECURSIVE BMul(_, _)
RECURSIVE BConv(_, _, _, _, _)
\* the sum of a[j] * b[k + 1 - j] for j from i to hi
BConv(a, b, k, i, hi) ==
    IF i > hi THEN 0 ELSE a[i] * b[k + 1 - i] + BConv(a, b, k, i + 1, hi)

\* a * b, a the shorter: digit sums of at most 7 products stay below 2^31
BMul(a, b) ==
    IF Len(a) > Len(b) THEN BMul(b, a)
    ELSE IF a = <<>> THEN <<>>
    ELSE IF Len(a) > 7 THEN BMulFrom(a, b, 1)
    ELSE BCarry([k \in 1..(Len(a) + Len(b) - 1) |->
                    BConv(a, b, k, Max(1, k + 1 - Len(b)), Min(Len(a), k))],
                1, 0)

\* a * 2^n
BShl(a, n) ==
    IF a = <<>> \/ n = 0 THEN a
    ELSE IF n % 14 = 0 THEN Zeros(n \div 14) \o a
    ELSE Zeros(n \div 14) \o BMulSmall(a, 2 ^ (n % 14))

\* floor(a / 2^n)
\* the digits of floor(a / (p * Base^q)), p * hi = Base
BShrBy(a, q, p, hi) ==
    BTrim([i \in 1..(Len(a) - q) |->
              (a[q + i] \div p)
              + (IF q + i < Len(a) THEN (a[q + i + 1] % p) * hi ELSE 0)])

BShr(a, n) ==
    IF n = 0 THEN a
    ELSE IF Len(a) <= n \div 14 THEN <<>>
    ELSE BShrBy(a, n \div 14, 2 ^ (n % 14), 2 ^ (14 - (n % 14)))

\* bit n of a, bit 0 the least significant
BBit(a, n) ==
    IF n \div 14 >= Len(a) THEN 0
    ELSE (a[n \div 14 + 1] \div (2 ^ (n % 14))) % 2

RECURSIVE IBitLen(_)
IBitLen(x) == IF x = 0 THEN 0 ELSE 1 + IBitLen(x \div 2)

\* number of bits of a: 2^(BBitLen(a) - 1) <= a < 2^BBitLen(a)
BBitLen(a) ==
    IF a = <<>> THEN 0 ELSE 14 * (Len(a) - 1) + IBitLen(a[Len(a)])

RECURSIVE ITz(_)
ITz(x) == IF x % 2 = 1 THEN 0 ELSE 1 + ITz(x \div 2)

RECURSIVE BTzFrom(_, _)
BTzFrom(a, i) == IF a[i] = 0 THEN 14 + BTzFrom(a, i + 1) ELSE ITz(a[i])

\* number of trailing zero bits of a > 0
BTz(a) == BTzFrom(a, 1)

RECURSIVE BCmpFrom(_, _, _)
BCmpFrom(a, b, i) ==
    IF i = 0 THEN 0
    ELSE IF a[i] # b[i] THEN (IF a[i] < b[i] THEN -1 ELSE 1)
    ELSE BCmpFrom(a, b, i - 1)

\* -1, 0, 1 as a < b, a = b, a > b
BCmp(a, b) ==
    IF Len(a) # Len(b) THEN (IF Len(a) < Len(b) THEN -1 ELSE 1)
    ELSE BCmpFrom(a, b, Len(a))

BDivSmallPut(q, rest) == <<Append(rest[1], q), rest[2]>>

RECURSIVE BDivSmallFrom(_, _, _, _)
RECURSIVE BDivSmallAt(_, _, _, _)
\* <<quotient, remainder>> of the digits i..1 of a, preceded by rem, by the
\* integer d <= 2^16
BDivSmallFrom(a, d, i, rem) ==
    IF i = 0 THEN <<<<>>, rem>>
    ELSE BDivSmallAt(a, d, i, rem * Base + a[i])

BDivSmallAt(a, d, i, t) ==
    BDivSmallPut(t \div d, BDivSmallFrom(a, d, i - 1, t % d))

RECURSIVE BDigit(_, _, _, _)
\* the largest digit q + x, x < 2^(b+1), with d * (q + x) <= t
BDigit(t, d, q, b) ==
    IF b < 0 THEN q
    ELSE IF BCmp(BMulSmall(d, q + 2 ^ b), t) <= 0
         THEN BDigit(t, d, q + 2 ^ b, b - 1)
         ELSE BDigit(t, d, q, b - 1)

RECURSIVE BDivFrom(_, _, _, _, _)
RECURSIVE BDivStep(_, _, _, _, _)
RECURSIVE BDivNext(_, _, _, _, _, _)
\* long division, one digit of a at a time from digit i down: qs the
\* digits of the quotient and r < d the remainder so far
BDivFrom(a, d, i, qs, r) ==
    IF i = 0 \/ BCmp(r, d) >= 0 THEN <<qs, r>>
    ELSE BDivStep(a, d, i, qs, BTrim(<<a[i]>> \o r))

\* one digit: t the remainder so far followed by digit i of a
BDivStep(a, d, i, qs, t) == BDivNext(a, d, i, qs, t, BDigit(t, d, 0, 13))

BDivNext(a, d, i, qs, t, q) ==
    BDivFrom(a, d, i - 1, <<q>> \o qs, BSub(t, BMulSmall(d, q)))

\* <<floor(a / d), a mod d>> for d > 0
BDivModSmall(qr) == <<BTrim(qr[1]), BNat(qr[2])>>

BDivModLong(qr) == <<BTrim(qr[1]), qr[2]>>

BDivMod(a, d) ==
    IF Len(d) = 1 \/ (Len(d) = 2 /\ d[2] < 4)
    THEN BDivModSmall(BDivSmallFrom(
             a, d[1] + (IF Len(d) = 2 THEN d[2] * Base ELSE 0), Len(a), 0))
    ELSE BDivModLong(BDivFrom(a, d, Len(a), <<>>, <<>>))

RECURSIVE BSqrtFrom(_, _)
RECURSIVE BSqrtStep(_, _, _)
\* floor of the square root of a by Newton's iteration from s >= sqrt(a)
BSqrtFrom(a, s) == BSqrtStep(a, s, BShr(BAdd(s, BDivMod(a, s)[1]), 1))

BSqrtStep(a, s, y) == IF BCmp(y, s) >= 0 THEN s ELSE BSqrtFrom(a, y)

BSqrt(a) == BSqrtFrom(a, BShl(<<1>>, (BBitLen(a) + 1) \div 2))

(***************************************************************************)
(* Numbers.  A Python float is an IEEE double; its value is s * m * 2^e    *)
(* and it is the triple <<s, m, e>>: s the sign (1, -1, and 0 for zero),   *)
(* m the odd natural number of at most 53 bits, e the exponent.  Zero is   *)
(* <<0, <<>>, 0>>.  Python's None is <<>>.  The same triples with m of any *)
(* size are the values of exact arithmetic.                                *)
(***************************************************************************)
None == <<>>

IsNone(x) == x = <<>>

Zero == <<0, <<>>, 0>>

\* s * m * 2^e with m > 0 made odd
DyNormBy(s, m, e, tz) == <<s, BShr(m, tz), e + tz>>

DyNorm(s, m, e) ==
    IF m = <<>> THEN Zero
    ELSE IF m[1] % 2 = 1 THEN <<s, m, e>>
    ELSE DyNormBy(s, m, e, BTz(m))

DyNeg(a) == <<-a[1], a[2], a[3]>>

DyMul(a, b) ==
    IF a[1] = 0 \/ b[1] = 0 THEN Zero
    ELSE <<a[1] * b[1], BMul(a[2], b[2]), a[3] + b[3]>>

\* sa * x * 2^e + sb * y * 2^e, c the order of x and y
DyAddMag(sa, sb, x, y, e, c) ==
    DyNorm(IF sa = sb \/ c > 0 THEN sa ELSE sb,
           IF sa = sb THEN BAdd(x, y)
           ELSE IF c >= 0 THEN BSub(x, y) ELSE BSub(y, x),
           e)

\* a + b with both brought to the exponent e
DyAddAt(a, b, x, y, e) == DyAddMag(a[1], b[1], x, y, e, BCmp(x, y))

DyAddTo(a, b, e) ==
    DyAddAt(a, b, BShl(a[2], a[3] - e), BShl(b[2], b[3] - e), e)

DyAdd(a, b) ==
    IF a[1] = 0 THEN b
    ELSE IF b[1] = 0 THEN a
    ELSE DyAddTo(a, b, Min(a[3], b[3]))

DySub(a, b) == DyAdd(a, DyNeg(b))

\* position of the leading bit: 2^(DyTop(a) - 1) <= |a| < 2^DyTop(a)
DyTop(a) == BBitLen(a[2]) + a[3]

\* the order of a and b of one sign, ta and tb their leading bits
DyCmpTop(a, b, ta, tb, e) ==
    IF ta # tb THEN (IF ta < tb THEN -a[1] ELSE a[1])
    ELSE a[1] * BCmp(BShl(a[2], a[3] - e), BShl(b[2], b[3] - e))

\* -1, 0, 1 as a < b, a = b, a > b
DyCmp(a, b) ==
    IF a[1] # b[1] THEN (IF a[1] < b[1] THEN -1 ELSE 1)
    ELSE IF a[1] = 0 THEN 0
    ELSE DyCmpTop(a, b, DyTop(a), DyTop(b), Min(a[3], b[3]))

\* the nearest double to a, a tie to the even neighbour
\* a without its last n bits, q the bits kept: the mantissa is odd, so the
\* bits dropped are exactly half of the last place kept only when n = 1
RoundBits(a, n, q) ==
    DyNorm(a[1],
           IF (IF n = 1 THEN q[1] % 2 = 1 ELSE BBit(a[2], n - 1) = 1)
           THEN BAdd(q, <<1>>) ELSE q,
           a[3] + n)

Round53Of(a, n) == IF n <= 0 THEN a ELSE RoundBits(a, n, BShr(a[2], n))

Round53(a) == Round53Of(a, BBitLen(a[2]) - 53)

\* float(n) of a Python int
RInt(n) == DyNorm(IF n < 0 THEN -1 ELSE 1, BNat(Abs(n)), 0)

RNeg(a) == DyNeg(a)

RAdd(a, b) == Round53(DyAdd(a, b))

RSub(a, b) == Round53(DySub(a, b))

RMul(a, b) == Round53(DyMul(a, b))

\* a / b for b # 0: the quotient's leading 55 or 56 bits, and one bit more
\* that is set when the division leaves a remainder, rounded
RDivOf(s, qr, e) ==
    Round53(DyNorm(s, BAdd(BShl(qr[1], 1),
                           IF qr[2] = <<>> THEN <<>> ELSE <<1>>), e))

RDivBy(a, b, k) ==
    RDivOf(a[1] * b[1], BDivMod(BShl(a[2], k), b[2]), a[3] - b[3] - k - 1)

RDiv(a, b) ==
    IF a[1] = 0 THEN Zero
    ELSE RDivBy(a, b, Max(0, 55 + BBitLen(b[2]) - BBitLen(a[2])))

\* the double nearest to n/d (d # 0): a decimal literal, a JSON number
R(n, d) == RDiv(RInt(n), RInt(d))

RLt(a, b) == DyCmp(a, b) < 0

RLe(a, b) == DyCmp(a, b) <= 0

RGe(a, b) == DyCmp(a, b) >= 0

RGt(a, b) == DyCmp(a, b) > 0

\* floor of the square root of a natural number below 2^14
ISqrt(n) == CHOOSE s \in 0..127 : s * s <= n /\ (s + 1) * (s + 1) > n

\* The square root of a > 0 as far as a double can tell: exact when a is
\* the square of a small number, else the root's leading 55 or 56 bits and
\* one bit more that is set when the root is not exact.
RootOf(n, s, e) ==
    DyNorm(1, BAdd(BShl(s, 1), IF BMul(s, s) = n THEN <<>> ELSE <<1>>), e)

RootBits(n, e) == RootOf(n, BSqrt(n), e)

RootScaled(m2, e2, j) == RootBits(BShl(m2, 2 * j), e2 \div 2 - j - 1)

\* the root of m2 * 2^e2, e2 even
RootEven(m2, e2) == RootScaled(m2, e2, Max(0, (111 - BBitLen(m2)) \div 2))

RootSmall(a, r) ==
    IF Len(a[2]) = 1 /\ (a[3] % 2) = 0 /\ r * r = a[2][1]
    THEN <<1, <<r>>, a[3] \div 2>>
    ELSE IF (a[3] % 2) = 0 THEN RootEven(a[2], a[3])
    ELSE RootEven(BShl(a[2], 1), a[3] - 1)

Root(a) == RootSmall(a, ISqrt(a[2][1]))

\* sqrt(a) for a > 0, correctly rounded: the square root the Z-score
\* formulas are written with
RSqrt(a) == Round53(Root(a))

\* a of more than 53 bits cut to 53: the double next below it in magnitude,
\* and the one next above; n is the number of bits cut
RoundDown53(a, n) == DyNorm(a[1], BShr(a[2], n), a[3] + n)

RoundUp53(a, n) == DyNorm(a[1], BAdd(BShr(a[2], n), <<1>>), a[3] + n)

WithinOneUlpOf(a, n) ==
    IF n <= 0 THEN {a} ELSE {RoundDown53(a, n), RoundUp53(a, n)}

\* What the C library's pow may return for the exact result a.  pow is
\* accurate to less than one unit in the last place and is not correctly
\* rounded: it returns a itself when a is a double, and otherwise one of the
\* two doubles a lies between, which of the two depending on the library
\* the interpreter is built with.
WithinOneUlp(a) == WithinOneUlpOf(a, BBitLen(a[2]) - 53)

\* x ** 0.5 for x > 0 (float.__pow__, the C library's pow): the outcomes
PowHalf(x) == WithinOneUlp(Root(x))

\* x ** 2 (float.__pow__, the C library's pow): the outcomes
PowTwo(x) == WithinOneUlp(DyMul(x, x))

\* round(x, 2): the exact value of the double rounded to two decimals, an
\* exact tie to the even neighbour, and the double nearest to the result
\* h = 100 * x with the fraction bits h[3] < 0, fl its integer part
Round2Up(h, fl) ==
    DyNorm(h[1],
           IF (IF h[3] = -1 THEN BBit(fl, 0) = 1
               ELSE BBit(h[2], -h[3] - 1) = 1)
           THEN BAdd(fl, <<1>>) ELSE fl,
           0)

Round2Of(x, h, hundred) ==
    IF h[3] >= 0 THEN x ELSE RDiv(Round2Up(h, BShr(h[2], -h[3])), hundred)

Round2Times(x, hundred) == Round2Of(x, DyMul(x, hundred), hundred)

Round2(x) == Round2Times(x, RInt(100))

\* the integer a natural number below 2^31 is
BInt(m) ==
    (IF Len(m) >= 1 THEN m[1] ELSE 0)
    + (IF Len(m) >= 2 THEN m[2] * Base ELSE 0)
    + (IF Len(m) >= 3 THEN m[3] * Base * Base ELSE 0)

\* floor of a number, exactly
DyFloor(a) ==
    IF a[1] = 0 THEN 0
    ELSE IF a[3] >= 0 THEN a[1] * BInt(BShl(a[2], a[3]))
    ELSE LET q == BInt(BShr(a[2], -a[3]))
         IN  IF a[1] > 0 THEN q ELSE -(q + 1)

DyAbs(a) == <<Abs(a[1]), a[2], a[3]>>

\* a * 2^k
DyScale(a, k) == IF a[1] = 0 THEN a ELSE <<a[1], a[2], a[3] + k>>

\* |x - y| <= 2^-50 * |scale|, in exact arithmetic: x is y up to the
\* rounding of a few operations on doubles of the size of scale
DyWithin(x, y, scale) ==
    DyCmp(DyScale(DyAbs(DySub(x, y)), 50), DyAbs(scale)) <= 0

(***************************************************************************)
(* congestion.py: constants                                                *)
(***************************************************************************)
MIN_SAMPLES_FOR_CALIBRATION == 50

FALLBACK_SPEED_HIGH == 15

FALLBACK_SPEED_MODERATE == 40

FALLBACK_COUNT_HIGH == 30

FALLBACK_COUNT_MODERATE == 10

\* 1.5 = 3 * 2^-1
Z_THRESHOLD_HIGH == <<1, <<3>>, -1>>

\* 0.5 = 1 * 2^-1
Z_THRESHOLD_MODERATE == <<1, <<1>>, -1>>

(***************************************************************************)
(* congestion.py: CellBaseline                                             *)
(***************************************************************************)
CellBaseline(as, ac, sv, cv, n) ==
    [avg_speed |-> as, avg_count |-> ac, speed_variance |-> sv,
     count_variance |-> cv, sample_count |-> n]

\* CellBaseline(): the dataclass defaults
EmptyBaseline == CellBaseline(RInt(0), RInt(0), RInt(0), RInt(0), 0)

\* CellBaseline.speed_std: the outcomes of speed_variance ** 0.5, or 1.0
speed_std(b) ==
    IF RGt(b.speed_variance, Zero) THEN PowHalf(b.speed_variance)
    ELSE {RInt(1)}

\* CellBaseline.count_std: the outcomes of count_variance ** 0.5, or 1.0
count_std(b) ==
    IF RGt(b.count_variance, Zero) THEN PowHalf(b.count_variance)
    ELSE {RInt(1)}

is_calibrated_strict(b) == b.sample_count > MIN_SAMPLES_FOR_CALIBRATION

is_calibrated(b) == b.sample_count >= MIN_SAMPLES_FOR_CALIBRATION

(***************************************************************************)
(* congestion.py: the scorer                                               *)
(***************************************************************************)
\* mutant: the invert flag ignored
calculate_z_score_no_invert(value, mean, std, invert) ==
    RDiv(RSub(value, mean), IF RLe(std, Zero) THEN RInt(1) ELSE std)

\* calculate_z_score: (value - mean) / std in doubles
calculate_z_score(value, mean, std, invert) ==
    RDiv(IF invert THEN RSub(mean, value) ELSE RSub(value, mean),
         IF RLe(std, Zero) THEN RInt(1) ELSE std)

\* mutant: the count threshold for HIGH taken exclusive
fallback_no_speed_gt(count) ==
    IF count > FALLBACK_COUNT_HIGH THEN "HIGH"
    ELSE IF count >= FALLBACK_COUNT_MODERATE THEN "MODERATE"
    ELSE "LOW"

\* _fallback_congestion, the branch without a speed sample
fallback_no_speed(count) ==
    IF count >= FALLBACK_COUNT_HIGH THEN "HIGH"
    ELSE IF count >= FALLBACK_COUNT_MODERATE THEN "MODERATE"
    ELSE "LOW"

\* mutant: the speed thresholds taken inclusive
fallback_with_speed_le(count, avg_speed) ==
    IF RLe(avg_speed, RInt(FALLBACK_SPEED_HIGH)) THEN "HIGH"
    ELSE IF RLe(avg_speed, RInt(FALLBACK_SPEED_MODERATE)) THEN "MODERATE"
    ELSE IF count >= FALLBACK_COUNT_HIGH THEN "MODERATE"
    ELSE "LOW"

\* _fallback_congestion, the branch with a speed sample
fallback_with_speed(count, avg_speed) ==
    IF RLt(avg_speed, RInt(FALLBACK_SPEED_HIGH)) THEN "HIGH"
    ELSE IF RLt(avg_speed, RInt(FALLBACK_SPEED_MODERATE)) THEN "MODERATE"
    ELSE IF count >= FALLBACK_COUNT_HIGH THEN "MODERATE"
    ELSE "LOW"

fallback_congestion(count, avg_speed) ==
    IF ~IsNone(avg_speed) THEN fallback_with_speed(count, avg_speed)
    ELSE fallback_no_speed(count)

\* mutant: both Z thresholds taken exclusive
level_from_z_gt(combined_z) ==
    IF RGt(combined_z, Z_THRESHOLD_HIGH) THEN "HIGH"
    ELSE IF RGt(combined_z, Z_THRESHOLD_MODERATE) THEN "MODERATE"
    ELSE "LOW"

\* calculate_congestion_level, "Determine level from combined Z-score": the
\* double combined_z against the thresholds
level_from_z(combined_z) ==
    IF RGe(combined_z, Z_THRESHOLD_HIGH) THEN "HIGH"
    ELSE IF RGe(combined_z, Z_THRESHOLD_MODERATE) THEN "MODERATE"
    ELSE "LOW"

\* mutant: the two Z-scores summed, not averaged
with_speed_z_sum(count_z, speed_z) ==
    [count_z |-> count_z, speed_z |-> speed_z,
     combined_z |-> RAdd(count_z, speed_z),
     level_reason |-> "speed_and_count"]

\* mutant: combine_z with the sum for the average
combine_z_sum(count_z, cur_speed, b, std) ==
    IF ~IsNone(cur_speed) /\ RGt(b.avg_speed, Zero)
    THEN with_speed_z_sum(count_z,
                          calculate_z_score(cur_speed, b.avg_speed, std,
                                            TRUE))
    ELSE [count_z |-> count_z, speed_z |-> None, combined_z |-> count_z,
          level_reason |-> "count_only"]

\* calculate_congestion_level with a speed: combined_z = (count_z +
\* speed_z) / 2 in doubles
with_speed_z(count_z, speed_z) ==
    [count_z |-> count_z, speed_z |-> speed_z,
     combined_z |-> RDiv(RAdd(count_z, speed_z), RInt(2)),
     level_reason |-> "speed_and_count"]

\* calculate_congestion_level, the speed branch: the doubles speed_z and
\* combined_z, and the reason; count_z is the double computed before and
\* is handed on, std is what baseline.speed_std returns when the branch
\* reads it
combine_z(count_z, cur_speed, b, std) ==
    IF ~IsNone(cur_speed) /\ RGt(b.avg_speed, Zero)
    THEN with_speed_z(count_z,
                      calculate_z_score(cur_speed, b.avg_speed, std, TRUE))
    ELSE [count_z |-> count_z, speed_z |-> None, combined_z |-> count_z,
          level_reason |-> "count_only"]

\* debug_info as the function starts it: the method and the echo of the
\* inputs; a key not set (yet) holds None
debug_info(count, cur_speed, b) ==
    [method |-> IF is_calibrated(b) THEN "calibrated" ELSE "fallback",
     sample_count |-> b.sample_count,
     baseline_avg_speed |-> b.avg_speed,
     baseline_avg_count |-> b.avg_count,
     current_count |-> count,
     current_avg_speed |-> cur_speed,
     level_reason |-> "none",
     count_z |-> None, speed_z |-> None, combined_z |-> None]

\* the calibrated return: the level from the double combined_z, the Z-scores
\* in debug_info rounded to two decimals
calibrated_verdict(count, cur_speed, b, c) ==
    [level |-> level_from_z(c.combined_z)] @@
    [debug_info(count, cur_speed, b) EXCEPT
        !.level_reason = c.level_reason,
        !.count_z = Round2(c.count_z),
        !.speed_z = IF IsNone(c.speed_z) THEN None ELSE Round2(c.speed_z),
        !.combined_z = Round2(c.combined_z)]

\* the calibrated returns, one for each outcome of the two standard
\* deviations (the speed's is read only in the speed branch)
calibrated_verdicts(count, cur_speed, b) ==
    {calibrated_verdict(
         count, cur_speed, b,
         combine_z(calculate_z_score(RInt(count), b.avg_count, cs, FALSE),
                   cur_speed, b, ss)) :
        cs \in count_std(b),
        ss \in IF ~IsNone(cur_speed) /\ RGt(b.avg_speed, Zero)
               THEN speed_std(b) ELSE {RInt(1)}}

\* mutant: the fallback verdict tagged with the reason of the count-only path
calculate_congestion_level_untagged(count, cur_speed, b) ==
    IF ~is_calibrated(b)
    THEN {[level |-> fallback_congestion(count, cur_speed)] @@
          [debug_info(count, cur_speed, b) EXCEPT
              !.level_reason = "count_only"]}
    ELSE calibrated_verdicts(count, cur_speed, b)

\* The returned (level, debug_info) as one record: the level is decided from
\* the double combined_z, debug_info holds the Z-scores rounded to two
\* decimals.  The set of the returns the call can make: one, unless a
\* variance of the baseline has a square root that is no double.
calculate_congestion_level(count, cur_speed, b) ==
    IF ~is_calibrated(b)
    THEN {[level |-> fallback_congestion(count, cur_speed)] @@
          [debug_info(count, cur_speed, b) EXCEPT
              !.level_reason = "insufficient_history"]}
    ELSE calibrated_verdicts(count, cur_speed, b)

NoVerdict ==
    [level |-> "none", method |-> "none", sample_count |-> 0,
     baseline_avg_speed |-> None, baseline_avg_count |-> None,
     current_count |-> 0, current_avg_speed |-> None,
     level_reason |-> "none",
     count_z |-> None, speed_z |-> None, combined_z |-> None]

(***************************************************************************)
(* Idle values: what each specification holds the other parts at.          *)
(***************************************************************************)
Workers == {"w1", "w2"}

IdleUpdate ==
    [pc |-> "idle", bucket_count |-> 0, bucket_avg_speed |-> None,
     alpha |-> R(1, 10), stored |-> {}, b |-> EmptyBaseline,
     out |-> EmptyBaseline, seen |-> {}, saved |-> FALSE]

ScoreIdle ==
    /\ current_count = 0
    /\ current_avg_speed = None
    /\ baseline = EmptyBaseline
    /\ verdict = NoVerdict

BaselineIdle ==
    /\ hex_baselines = {}
    /\ upd = [w \in Workers |-> IdleUpdate]
    /\ updates_started = 0

PingIdle ==
    /\ redis_sets = <<>>
    /\ redis_speeds = <<>>
    /\ redis_flags = {}
    /\ redis_ttl = <<>>
    /\ ratelimit = <<>>
    /\ stream = <<>>
    /\ bucket_history = <<>>
    /\ req = <<>>
    /\ pings_started = 0
    /\ recorded = <<>>

IdleZCall ==
    [value |-> RInt(0), mean |-> RInt(0), std |-> RInt(0), invert |-> FALSE,
     out |-> None]

IdleBucketCall ==
    [t1 |-> RInt(0), t2 |-> RInt(0), b1 |-> 0, b2 |-> 0, pc |-> "idle"]

IdleLookup == [pc |-> "idle", db |-> "ok"]

IdleRead ==
    [pc |-> "idle", bucket |-> 0, count |-> 0, avg_speed |-> None,
     level |-> "none", status |-> 0]

ZIdle == z_call = IdleZCall

BucketIdle == bucket_call = IdleBucketCall

LookupIdle == lookup = IdleLookup

IdleSave ==
    [pc |-> "idle", bucket |-> 0, count |-> 0, avg_speed |-> None,
     saved |-> FALSE, sample_count |-> 0, status |-> 0, started |-> 0]

RedisIdle == redis_up = TRUE /\ rd = IdleRead /\ hs = IdleSave

ClockIdle == quiet = <<>> /\ accepted = <<>>

CallIdle == ZIdle /\ BucketIdle /\ LookupIdle /\ RedisIdle

AuxIdle == ZIdle /\ BucketIdle /\ LookupIdle /\ RedisIdle /\ ClockIdle

(***************************************************************************)
(* SpecScore: the scorer applied to inputs drawn from bounded sets.        *)
(***************************************************************************)
MaxCount == 36

MaxSpeed == 61

CountInputs == 0..MaxCount

SpeedInputs ==
    {None} \cup {RInt(k) : k \in 0..MaxSpeed} \cup {R(29, 2), R(79, 2)}

\* (speed_variance, count_variance): zero, a pair below 1, and squares
VarianceInputs == {<<RInt(0), RInt(0)>>, <<R(1, 4), R(1, 4)>>,
                   <<RInt(100), RInt(25)>>}

SampleCountInputs ==
    {0, MIN_SAMPLES_FOR_CALIBRATION - 1, MIN_SAMPLES_FOR_CALIBRATION,
     MIN_SAMPLES_FOR_CALIBRATION + 1}

BaselineInputs ==
    {CellBaseline(as, RInt(20), v[1], v[2], n) :
        as \in {RInt(0), RInt(60)}, v \in VarianceInputs,
        n \in SampleCountInputs}

\* Variances whose square root is no double: 2.315 and 8.967
EdgeSpeedVariance == R(2315, 1000)

EdgeCountVariance == R(8967, 1000)

\* the lower of the outcomes of 8.967 ** 0.5
EdgeCountStd ==
    CHOOSE s \in PowHalf(EdgeCountVariance) :
        \A t \in PowHalf(EdgeCountVariance) : RLe(s, t)

\* The mean that puts the count 20 at 1.5 times that root above it, so that
\* count_z is 1.5 with the one outcome of the root and below 1.5 with the
\* other: 20 - 1.5 * 2.994494949069041
EdgeAvgCount == RSub(RInt(20), RMul(R(3, 2), EdgeCountStd))

EdgeCountInputs == 18..22

EdgeSpeedInputs == {None, RInt(30), RInt(58), R(119, 2), RInt(60)}

EdgeBaselineInputs ==
    {CellBaseline(RInt(60), ac, EdgeSpeedVariance, EdgeCountVariance, n) :
        ac \in {EdgeAvgCount, RInt(20)},
        n \in {MIN_SAMPLES_FOR_CALIBRATION - 1, MIN_SAMPLES_FOR_CALIBRATION}}

InitScore ==
    /\ \/ /\ current_count \in CountInputs
          /\ current_avg_speed \in SpeedInputs
          /\ baseline \in BaselineInputs
       \/ /\ current_count \in EdgeCountInputs
          /\ current_avg_speed \in EdgeSpeedInputs
          /\ baseline \in EdgeBaselineInputs
    /\ verdict = NoVerdict
    /\ BaselineIdle
    /\ PingIdle
    /\ AuxIdle

\* One call of calculate_congestion_level(current_count, current_avg_speed,
\* baseline).
Calculate ==
    /\ verdict = NoVerdict
    /\ verdict' \in calculate_congestion_level(current_count,
                                                current_avg_speed, baseline)
    /\ UNCHANGED <<current_count, current_avg_speed, baseline>>
    /\ UNCHANGED <<baseVars, pingVars, auxVars>>

NextScore == Calculate

SpecScore == InitScore /\ [][NextScore]_vars

Scored == verdict.level # "none"

Fallback == Scored /\ baseline.sample_count < 50

Calibrated == Scored /\ baseline.sample_count >= 50

\* C1: with an uncalibrated baseline (sample_count < 50) and no speed sample
\* the level is HIGH for every count >= 30, MODERATE for 10 <= count < 30 and
\* LOW for count < 10; so 9 gives LOW, 10 MODERATE and 30 HIGH.
C1_FallbackCountTable ==
    (Fallback /\ IsNone(current_avg_speed)) =>
        /\ (current_count >= 30 => verdict.level = "HIGH")
        /\ (current_count >= 10 /\ current_count < 30
               => verdict.level = "MODERATE")
        /\ (current_count < 10 => verdict.level = "LOW")
        /\ (current_count = 9 => verdict.level = "LOW")
        /\ (current_count = 10 => verdict.level = "MODERATE")
        /\ (current_count = 30 => verdict.level = "HIGH")

C1_Witness ==
    /\ Fallback
    /\ IsNone(current_avg_speed)
    /\ current_count = 30
    /\ verdict.level = "HIGH"
    /\ baseline.sample_count = 49

\* C2: with an uncalibrated baseline and a speed sample the level is HIGH iff
\* speed < 15, MODERATE iff 15 <= speed < 40 or (speed >= 40 and count >= 30),
\* LOW iff speed >= 40 and count < 30; speed exactly 15 is not HIGH and speed
\* exactly 40 is decided by the count alone.
C2_FallbackSpeedTable ==
    (Fallback /\ ~IsNone(current_avg_speed)) =>
        LET s == current_avg_speed
            c == current_count
        IN  /\ (verdict.level = "HIGH") <=> RLt(s, RInt(15))
            /\ (verdict.level = "MODERATE") <=>
                   \/ (RGe(s, RInt(15)) /\ RLt(s, RInt(40)))
                   \/ (RGe(s, RInt(40)) /\ c >= 30)
            /\ (verdict.level = "LOW") <=> (RGe(s, RInt(40)) /\ c < 30)
            /\ (s = RInt(15) => verdict.level # "HIGH")
            /\ (s = RInt(40) =>
                   verdict.level = IF c >= 30 THEN "MODERATE" ELSE "LOW")

C2_Witness ==
    /\ Fallback
    /\ current_avg_speed = RInt(40)
    /\ current_count = 30
    /\ verdict.level = "MODERATE"

\* C3: the mode depends on sample_count alone, with threshold 50: up to 49
\* the fallback table is used and the verdict is tagged method "fallback",
\* reason "insufficient_history"; from 50 on the Z-score path is used and the
\* verdict is tagged method "calibrated".
C3_ModeFromSampleCount ==
    Scored =>
        /\ (baseline.sample_count <= 49 =>
               /\ verdict.method = "fallback"
               /\ verdict.level_reason = "insufficient_history"
               /\ IsNone(verdict.combined_z)
               /\ verdict.level =
                      fallback_congestion(current_count, current_avg_speed))
        /\ (baseline.sample_count >= 50 =>
               /\ verdict.method = "calibrated"
               /\ verdict.level_reason \in {"speed_and_count", "count_only"}
               /\ ~IsNone(verdict.combined_z)
               /\ ~IsNone(verdict.count_z))

C3_Witness ==
    /\ Scored
    /\ baseline.sample_count = 50
    /\ verdict.method = "calibrated"
    /\ baseline.avg_speed = RInt(0)
    /\ baseline.count_variance = RInt(0)

\* baseline.count_std as the call read it: an outcome of the root
C4_CountStd == count_std(baseline)

\* baseline.speed_std as the call read it, 1.0 standing in when the call
\* does not read it
C4_SpeedStd ==
    IF ~IsNone(current_avg_speed) /\ baseline.avg_speed[1] > 0
    THEN speed_std(baseline) ELSE {RInt(1)}

\* the double combined_z the scorer holds for the inputs of this state when
\* the standard deviations are cs and ss
C4_CombinedZ(cs, ss) ==
    IF ~IsNone(current_avg_speed) /\ baseline.avg_speed[1] > 0
    THEN RDiv(RAdd(RDiv(RSub(RInt(current_count), baseline.avg_count), cs),
                   RDiv(RSub(baseline.avg_speed, current_avg_speed), ss)),
              RInt(2))
    ELSE RDiv(RSub(RInt(current_count), baseline.avg_count), cs)

\* the level and the reported combined_z are those of the double z
C4_LevelOf(z) ==
    /\ verdict.combined_z = Round2(z)
    /\ (verdict.level = "HIGH") <=> RGe(z, R(3, 2))
    /\ (verdict.level = "MODERATE") <=> (RGe(z, R(1, 2)) /\ RLt(z, R(3, 2)))
    /\ (verdict.level = "LOW") <=> RLt(z, R(1, 2))

\* C4: in calibrated mode the level is decided by combined_z alone: HIGH iff
\* combined_z >= 1.5, MODERATE iff 0.5 <= combined_z < 1.5, LOW iff
\* combined_z < 0.5, combined_z being the double the scorer computed from
\* the standard deviations it read.
C4_LevelFromCombinedZ ==
    Calibrated =>
        /\ verdict.level \in {"HIGH", "MODERATE", "LOW"}
        /\ \E cs \in C4_CountStd, ss \in C4_SpeedStd :
               C4_LevelOf(C4_CombinedZ(cs, ss))

\* count 20 on the mean 1.5 roots of 8.967 below it, the root taken as
\* 2.994494949069041: count_z is exactly 1.5 and the level HIGH
C4_Witness ==
    /\ Calibrated
    /\ baseline.count_variance = EdgeCountVariance
    /\ baseline.avg_count = EdgeAvgCount
    /\ current_count = 20
    /\ IsNone(current_avg_speed)
    /\ C4_CombinedZ(EdgeCountStd, RInt(1)) = R(3, 2)
    /\ verdict.combined_z = R(3, 2)
    /\ verdict.level = "HIGH"

\* the doubles count_z and speed_z for the inputs of this state when the
\* standard deviations are cs and ss
C5_CountZ(cs) == RDiv(RSub(RInt(current_count), baseline.avg_count), cs)

C5_SpeedZ(ss) == RDiv(RSub(baseline.avg_speed, current_avg_speed), ss)

C5_Scenario ==
    /\ baseline = CellBaseline(RInt(60), RInt(20), RInt(100), RInt(25), 50)
    /\ current_count = 35
    /\ current_avg_speed = RInt(30)

\* the verdict's level for the double z
C5_LevelIs(z) == verdict.level = level_from_z(z)

\* the verdict of the speed branch for the doubles count_z and speed_z
C5_WithSpeed(cz, sz) ==
    /\ verdict.count_z = Round2(cz)
    /\ verdict.speed_z = Round2(sz)
    /\ verdict.combined_z = Round2(RDiv(RAdd(cz, sz), RInt(2)))
    /\ verdict.level_reason = "speed_and_count"
    /\ C5_LevelIs(RDiv(RAdd(cz, sz), RInt(2)))

\* the verdict of the count-only branch for the double count_z
C5_CountOnly(cz) ==
    /\ verdict.count_z = Round2(cz)
    /\ IsNone(verdict.speed_z)
    /\ verdict.combined_z = Round2(cz)
    /\ verdict.level_reason = "count_only"
    /\ C5_LevelIs(cz)

\* C5: in calibrated mode, with a current speed and baseline avg_speed > 0,
\* combined_z = (count_z + speed_z)/2 with speed_z = (avg_speed - speed) /
\* speed_std, reason "speed_and_count"; otherwise combined_z = count_z,
\* reason "count_only"; the operations are those of doubles, the standard
\* deviations those the call read, and the verdict carries the three values
\* rounded to two decimals.  Baseline (60, 20, std 10, std 5, 50 samples)
\* with count 35 and speed 30 gives count_z = speed_z = combined_z = 3 and
\* HIGH.
C5_CombinedZ ==
    Calibrated =>
        /\ IF ~IsNone(current_avg_speed) /\ baseline.avg_speed[1] > 0
           THEN \E cs \in count_std(baseline), ss \in speed_std(baseline) :
                   C5_WithSpeed(C5_CountZ(cs), C5_SpeedZ(ss))
           ELSE \E cs \in count_std(baseline) : C5_CountOnly(C5_CountZ(cs))
        /\ (C5_Scenario =>
               /\ count_std(baseline) = {RInt(5)}
               /\ speed_std(baseline) = {RInt(10)}
               /\ C5_CountZ(RInt(5)) = RInt(3)
               /\ C5_SpeedZ(RInt(10)) = RInt(3)
               /\ verdict.count_z = RInt(3)
               /\ verdict.speed_z = RInt(3)
               /\ verdict.combined_z = RInt(3)
               /\ verdict.level = "HIGH")

C5_Witness ==
    /\ Calibrated
    /\ C5_Scenario
    /\ verdict.combined_z = RInt(3)
    /\ verdict.level_reason = "speed_and_count"

\* max(sqrt(variance), 1.0): the divisor the Z-score formulas are stated with
C11_FlooredStd(variance) ==
    LET std == RSqrt(variance)
    IN  IF RGe(std, RInt(1)) THEN std ELSE RInt(1)

\* C11: every Z-score divides by max(std, 1.0): for every baseline variance,
\* those strictly between 0 and 1 included, count_z = (count - avg_count) /
\* max(sqrt(count_variance), 1) and speed_z = (avg_speed - speed) /
\* max(sqrt(speed_variance), 1); the divisor is never below 1.
C11_DivisorFloored ==
    Calibrated =>
        /\ verdict.count_z =
               Round2(RDiv(RSub(RInt(current_count), baseline.avg_count),
                           C11_FlooredStd(baseline.count_variance)))
        /\ ~IsNone(verdict.speed_z) =>
               verdict.speed_z =
                   Round2(RDiv(RSub(baseline.avg_speed, current_avg_speed),
                               C11_FlooredStd(baseline.speed_variance)))

\* C19: whatever the count, the speed (or none) and the baseline, the level
\* is one of LOW, MODERATE, HIGH, the method one of fallback, calibrated, the
\* level_reason one of insufficient_history, speed_and_count, count_only,
\* and the method is fallback exactly when the reason is
\* insufficient_history.
C19_VerdictShape ==
    Scored =>
        /\ verdict.level \in {"LOW", "MODERATE", "HIGH"}
        /\ verdict.method \in {"fallback", "calibrated"}
        /\ verdict.level_reason \in
               {"insufficient_history", "speed_and_count", "count_only"}
        /\ (verdict.method = "fallback") <=>
               (verdict.level_reason = "insufficient_history")

C19_Witness ==
    /\ Scored
    /\ verdict.method = "calibrated"
    /\ verdict.level_reason = "count_only"
    /\ verdict.level = "LOW"
    /\ IsNone(current_avg_speed)
    /\ baseline.speed_variance = R(1, 4)

(***************************************************************************)
(* time_utils.py                                                           *)
(***************************************************************************)
WINDOW_SECONDS == 300

\* int(x): the integer part of a double, toward zero
IntTrunc(a) ==
    IF a[1] = 0 THEN 0
    ELSE a[1] * BInt(IF a[3] >= 0 THEN BShl(a[2], a[3])
                     ELSE BShr(a[2], -a[3]))

\* time_utils.current_bucket, ts in (fractional) seconds since the epoch
current_bucket(ts) == IntTrunc(ts) \div WINDOW_SECONDS

(***************************************************************************)
(* SpecZScore: calculate_z_score applied to inputs drawn from bounded      *)
(* sets, a zero and a negative std among them.                             *)
(***************************************************************************)
MaxZValue == 15

ZValueInputs == {RInt(k) : k \in 0..MaxZValue} \cup {R(21, 2)}

ZMeanInputs == {RInt(0), RInt(5), RInt(10)}

ZStdInputs == {RInt(-1), RInt(0), R(1, 2), RInt(1), RInt(5)}

InitZScore ==
    /\ z_call \in [value : ZValueInputs, mean : ZMeanInputs, std : ZStdInputs,
                   invert : BOOLEAN, out : {None}]
    /\ BucketIdle /\ LookupIdle /\ RedisIdle /\ ClockIdle
    /\ ScoreIdle
    /\ BaselineIdle
    /\ PingIdle

\* One call of calculate_z_score(value, mean, std, invert).
ZScore ==
    /\ IsNone(z_call.out)
    /\ z_call' = [z_call EXCEPT !.out =
                      calculate_z_score(z_call.value, z_call.mean,
                                        z_call.std, z_call.invert)]
    /\ UNCHANGED <<bucket_call, lookup, redis_up, rd, hs, quiet,
                   accepted>>
    /\ UNCHANGED <<scoreVars, baseVars, pingVars>>

NextZScore == ZScore

SpecZScore == InitZScore /\ [][NextZScore]_vars

\* C12: calculate_z_score(value, mean, std, invert) is (value - mean)/s, or
\* (mean - value)/s when invert is set, with s = std for std > 0 and s = 1
\* for std <= 0, the difference and the quotient being those of doubles (so
\* z * s is the difference up to the rounding of the division): a result
\* always exists (no division by zero), z(mean) = 0, z(mean + std) = 1,
\* z(mean + 5) with std 0 is 5, and the inverted score of a value below the
\* mean is positive.
C12_ZScore ==
    ~IsNone(z_call.out) =>
        LET v == z_call.value
            m == z_call.mean
            s == IF z_call.std[1] > 0 THEN z_call.std ELSE RInt(1)
            z == z_call.out
            diff == IF z_call.invert THEN DySub(m, v) ELSE DySub(v, m)
        IN  /\ s[1] # 0
            /\ ~z_call.invert => z = RDiv(RSub(v, m), s)
            /\ z_call.invert => z = RDiv(RSub(m, v), s)
            /\ DyWithin(DyMul(z, s), diff, diff)
            /\ (v = m) => z = RInt(0)
            /\ (~z_call.invert /\ z_call.std[1] > 0 /\ v = RAdd(m, z_call.std))
                   => z = RInt(1)
            /\ (~z_call.invert /\ z_call.std = RInt(0) /\ v = RAdd(m, RInt(5)))
                   => z = RInt(5)
            /\ (z_call.invert /\ RLt(v, m)) => RGt(z, RInt(0))

C12_Witness ==
    /\ z_call.out = RInt(5)
    /\ z_call.std = RInt(0)
    /\ z_call.mean = RInt(5)
    /\ z_call.value = RInt(10)
    /\ ~z_call.invert

(***************************************************************************)
(* SpecBucket: time_utils.current_bucket applied to two timestamps, given  *)
(* in seconds since the epoch: half-second instants around the epoch and   *)
(* around one window before and after it.                                  *)
(***************************************************************************)
MaxHalfSeconds == 3

BucketTsInputs ==
    {RAdd(R(k, 2), RInt(j * 300)) :
        k \in (-MaxHalfSeconds)..MaxHalfSeconds, j \in {-1, 0, 1}}

InitBucket ==
    /\ bucket_call \in [t1 : BucketTsInputs, t2 : BucketTsInputs,
                        b1 : {0}, b2 : {0}, pc : {"idle"}]
    /\ ZIdle /\ LookupIdle /\ RedisIdle /\ ClockIdle
    /\ ScoreIdle
    /\ BaselineIdle
    /\ PingIdle

\* current_bucket(t1) and current_bucket(t2)
BucketOf ==
    /\ bucket_call.pc = "idle"
    /\ bucket_call' = [bucket_call EXCEPT
                          !.b1 = current_bucket(bucket_call.t1),
                          !.b2 = current_bucket(bucket_call.t2),
                          !.pc = "done"]
    /\ UNCHANGED <<z_call, lookup, redis_up, rd, hs, quiet,
                   accepted>>
    /\ UNCHANGED <<scoreVars, baseVars, pingVars>>

NextBucket == BucketOf

SpecBucket == InitBucket /\ [][NextBucket]_vars

\* floor(t / 300) of a number of seconds
C14_Floor(t) == DyFloor(t) \div 300

\* C14: current_bucket(t) is floor(epoch_seconds(t) / 300) for every
\* timestamp, sub-second and pre-epoch ones included: two timestamps get the
\* same bucket exactly when their floors match, timestamps 300 seconds apart
\* get buckets differing by exactly 1, and the bucket is non-decreasing in t.
C14_BucketIsFloor ==
    bucket_call.pc = "done" =>
        LET c == bucket_call
        IN  /\ c.b1 = C14_Floor(c.t1)
            /\ c.b2 = C14_Floor(c.t2)
            /\ (c.b1 = c.b2) <=> (C14_Floor(c.t1) = C14_Floor(c.t2))
            /\ (c.t2 = RAdd(c.t1, RInt(300))) => c.b2 = c.b1 + 1
            /\ RLe(c.t1, c.t2) => c.b1 <= c.b2

(***************************************************************************)
(* SpecBaseline: update_baseline_with_bucket on one cell's durable row.    *)
(* A call is three steps, one per round trip to the store: the read        *)
(* (get_baseline), the update of the baseline object with the SELECT of    *)
(* save_baseline, and the COMMIT of save_baseline; calls of the two        *)
(* workers interleave between them.  Each database access finds the store  *)
(* in one of DbStates.  The table holds one row per cell.                  *)
(***************************************************************************)
MaxUpdates == 2

DbStates == {"ok", "not_configured", "no_session", "query_error"}

\* mutant: a query that fails is not caught as an empty baseline; the call
\* hands back the statistics of a calibrated cell
get_baseline_uncaught(db, table) ==
    IF db = "not_configured" THEN EmptyBaseline
    ELSE IF db = "no_session" THEN EmptyBaseline
    ELSE IF db = "query_error"
         THEN [EmptyBaseline EXCEPT !.sample_count = MIN_SAMPLES_FOR_CALIBRATION]
    ELSE IF table = {} THEN EmptyBaseline
    ELSE LET row == CHOOSE r \in table : TRUE
         IN  CellBaseline(row.avg_speed, row.avg_count, row.speed_variance,
                          row.count_variance, row.sample_count)

\* get_baseline(cell_id) against the table, the store being in state db
get_baseline(db, table) ==
    IF db = "not_configured" THEN EmptyBaseline
    ELSE IF db = "no_session" THEN EmptyBaseline
    ELSE IF db = "query_error" THEN EmptyBaseline
    ELSE IF table = {} THEN EmptyBaseline
    ELSE LET row == CHOOSE r \in table : TRUE
         IN  CellBaseline(row.avg_speed, row.avg_count, row.speed_variance,
                          row.count_variance, row.sample_count)

\* save_baseline up to its SELECT: <<the call goes on to the commit, the
\* row the session loaded ({}: none)>>; a store not configured, no session
\* or a failing query end the call with False
save_baseline_select(db, table) ==
    IF db = "not_configured" THEN <<FALSE, {}>>
    ELSE IF db = "no_session" THEN <<FALSE, {}>>
    ELSE IF db = "query_error" THEN <<FALSE, {}>>
    ELSE <<TRUE, table>>

\* the stores a commit can meet: the session exists
CommitStates == {"ok", "query_error"}

\* the UPDATE the session emits for a loaded row: the columns whose new
\* value differs from the loaded one are written, the others stay as the
\* table holds them
row_update(loaded, current, b) ==
    [f \in DOMAIN b |-> IF b[f] # loaded[f] THEN b[f] ELSE current[f]]

\* save_baseline from the row branch to the return: <<returned bool, table
\* afterwards>>.  With no row loaded the commit inserts one, which fails
\* when the cell got its row in the meantime; with a row loaded it updates
\* the cell's row.
save_baseline_commit(db, seen, table, b) ==
    IF db # "ok" THEN <<FALSE, table>>
    ELSE IF seen = {}
         THEN IF table = {}
              THEN <<TRUE, {CellBaseline(b.avg_speed, b.avg_count,
                                         b.speed_variance, b.count_variance,
                                         b.sample_count)}>>
              ELSE <<FALSE, table>>
    ELSE <<TRUE, {row_update(CHOOSE r \in seen : TRUE,
                             CHOOSE r \in table : TRUE, b)}>>

\* mutant: the first sample's speed is not taken
first_sample_no_speed(b, bucket_count, bucket_avg_speed) ==
    [b EXCEPT !.avg_count = RInt(bucket_count), !.sample_count = 1]

\* update_baseline_with_bucket, "First sample - initialize directly"
first_sample(b, bucket_count, bucket_avg_speed) ==
    [b EXCEPT !.avg_count = RInt(bucket_count),
              !.avg_speed = IF ~IsNone(bucket_avg_speed)
                            THEN bucket_avg_speed ELSE @,
              !.sample_count = 1]

\* mutant: the step toward the new value is taken at 1 + alpha
ema_overshoot(old, new, alpha) ==
    RAdd(old, RMul(RAdd(RInt(1), alpha), RSub(new, old)))

\* (1 - alpha) * old + alpha * new
ema(old, new, alpha) ==
    RAdd(RMul(RSub(RInt(1), alpha), old), RMul(alpha, new))

\* update_baseline_with_bucket, the EMA branch, count_sq and speed_sq being
\* what count_diff ** 2 and speed_diff ** 2 evaluate to
ema_blend(b, cnt, bucket_avg_speed, alpha, blendSpeed, count_sq, speed_sq) ==
    [avg_count |-> ema(b.avg_count, cnt, alpha),
     count_variance |-> ema(b.count_variance, count_sq, alpha),
     avg_speed |->
         IF IsNone(bucket_avg_speed) THEN b.avg_speed
         ELSE IF blendSpeed THEN ema(b.avg_speed, bucket_avg_speed, alpha)
         ELSE bucket_avg_speed,
     speed_variance |->
         IF blendSpeed THEN ema(b.speed_variance, speed_sq, alpha)
         ELSE b.speed_variance,
     sample_count |-> b.sample_count + 1]

\* the speed mean is blended: a speed sample and a positive old mean
blends_speed(b, bucket_avg_speed) ==
    ~IsNone(bucket_avg_speed) /\ RGt(b.avg_speed, RInt(0))

\* update_baseline_with_bucket, the EMA branch: the baselines it can leave,
\* one for each outcome of the two squares (the deviations are taken from
\* the means as they were before the blend)
ema_update(b, bucket_count, bucket_avg_speed, alpha) ==
    {ema_blend(b, RInt(bucket_count), bucket_avg_speed, alpha,
               blends_speed(b, bucket_avg_speed), count_sq, speed_sq) :
        count_sq \in PowTwo(RSub(RInt(bucket_count), b.avg_count)),
        speed_sq \in IF blends_speed(b, bucket_avg_speed)
                     THEN PowTwo(RSub(bucket_avg_speed, b.avg_speed))
                     ELSE {Zero}}

\* The baselines update_baseline_with_bucket can return (and hand to
\* save_baseline) for the baseline b that get_baseline gave it.
updated_baseline(b, bucket_count, bucket_avg_speed, alpha) ==
    IF b.sample_count = 0
    THEN {first_sample(b, bucket_count, bucket_avg_speed)}
    ELSE ema_update(b, bucket_count, bucket_avg_speed, alpha)

BucketCountInputs == {30}

BucketSpeedInputs == {None, RInt(0), RInt(40)}

AlphaInputs == {R(1, 10), R(1, 2)}

\* Rows a cell can hold when the run starts: none, the row one speedless
\* bucket leaves, and rows of a cell with history, one of them with a mean
\* count (1.457) whose squared deviation from the bucket's is no double.
SeedTables ==
    {{},
     {CellBaseline(RInt(0), RInt(20), RInt(0), RInt(0), 1)},
     {CellBaseline(RInt(60), RInt(20), RInt(100), RInt(25), 10)},
     {CellBaseline(RInt(60), R(1457, 1000), RInt(100), RInt(25),
                   MIN_SAMPLES_FOR_CALIBRATION - 1)}}

\* The calls of one run pass one alpha.
InitBaseline ==
    /\ hex_baselines \in SeedTables
    /\ \E a \in AlphaInputs :
          upd = [w \in Workers |-> [IdleUpdate EXCEPT !.alpha = a]]
    /\ updates_started = 0
    /\ ScoreIdle
    /\ PingIdle
    /\ AuxIdle

\* A worker enters update_baseline_with_bucket(cell, bucket_count,
\* bucket_avg_speed, alpha) and runs get_baseline.
UpdGetBaseline(w) ==
    /\ upd[w].pc \in {"idle", "done"}
    /\ updates_started < MaxUpdates
    /\ \E c \in BucketCountInputs, s \in BucketSpeedInputs,
          db \in DbStates :
          upd' = [upd EXCEPT ![w] =
                     [pc |-> "got", bucket_count |-> c,
                      bucket_avg_speed |-> s, alpha |-> upd[w].alpha,
                      stored |-> hex_baselines,
                      b |-> get_baseline(db, hex_baselines),
                      out |-> EmptyBaseline, seen |-> {},
                      saved |-> FALSE]]
    /\ updates_started' = updates_started + 1
    /\ UNCHANGED <<hex_baselines, scoreVars, pingVars, auxVars>>

\* save_baseline(cell_id, nb) up to its SELECT, the store being in one of
\* DbStates
SaveSelect(w, nb) ==
    \E db \in DbStates :
       LET sel == save_baseline_select(db, hex_baselines)
       IN  upd' = [upd EXCEPT
                      ![w].pc = IF sel[1] THEN "commit" ELSE "done",
                      ![w].out = nb,
                      ![w].seen = sel[2],
                      ![w].saved = FALSE]

\* The worker updates its baseline object and enters save_baseline, up to
\* the SELECT; when that fails the call returns the baseline unsaved.
UpdSaveSelect(w) ==
    /\ upd[w].pc = "got"
    /\ \E nb \in updated_baseline(upd[w].b, upd[w].bucket_count,
                                   upd[w].bucket_avg_speed, upd[w].alpha) :
          SaveSelect(w, nb)
    /\ UNCHANGED <<hex_baselines, updates_started, scoreVars, pingVars,
                   auxVars>>

\* save_baseline: the row is built or changed, session.commit(), and the
\* call returns
UpdSaveCommit(w) ==
    /\ upd[w].pc = "commit"
    /\ \E db \in CommitStates :
          LET sv == save_baseline_commit(db, upd[w].seen, hex_baselines,
                                         upd[w].out)
          IN  /\ upd' = [upd EXCEPT ![w].pc = "done", ![w].saved = sv[1]]
              /\ hex_baselines' = sv[2]
    /\ UNCHANGED <<updates_started, scoreVars, pingVars, auxVars>>

NextBaseline ==
    \E w \in Workers :
        UpdGetBaseline(w) \/ UpdSaveSelect(w) \/ UpdSaveCommit(w)

SpecBaseline == InitBaseline /\ [][NextBaseline]_vars

\* worker w's call returns in this step
UpdReturns(w) == upd[w].pc \in {"got", "commit"} /\ upd'[w].pc = "done"

\* no other call has written the cell's row since worker w's session loaded
\* it
RowAsLoaded(w) == hex_baselines = upd[w].seen

\* (1 - alpha) * old + alpha * new as a real number
ExactBlend(old, new, alpha) ==
    DyAdd(DyMul(DySub(RInt(1), alpha), old), DyMul(alpha, new))

\* C8: for a cell whose stored row has sample_count >= 1 when the call reads
\* it, update_baseline_with_bucket produces, and on a successful save of
\* the row as its session loaded it stores, avg_count = (1-alpha) *
\* old_avg_count + alpha * bucket_count, avg_speed = (1-alpha) *
\* old_avg_speed + alpha * bucket_avg_speed (speed present, old avg_speed >
\* 0), each the value of that expression in doubles and so the real value
\* up to rounding, and sample_count = old + 1, old being the stored row;
\* alpha 0.1 takes avg_count 20 with bucket_count 30 to exactly 21.0 and
\* avg_speed 60 with bucket speed 40 to exactly 58.0.
C8_EmaUpdate ==
    [][\A w \in Workers : \A old \in upd[w].stored :
         (UpdReturns(w) /\ old.sample_count >= 1) =>
            LET u == upd[w]
                new == upd'[w].out
                one_minus == RSub(RInt(1), u.alpha)
            IN  /\ new.avg_count =
                       RAdd(RMul(one_minus, old.avg_count),
                            RMul(u.alpha, RInt(u.bucket_count)))
                /\ DyWithin(new.avg_count,
                            ExactBlend(old.avg_count, RInt(u.bucket_count),
                                       u.alpha),
                            DyAdd(old.avg_count, RInt(u.bucket_count)))
                /\ (~IsNone(u.bucket_avg_speed) /\ old.avg_speed[1] > 0) =>
                       /\ new.avg_speed =
                              RAdd(RMul(one_minus, old.avg_speed),
                                   RMul(u.alpha, u.bucket_avg_speed))
                       /\ DyWithin(new.avg_speed,
                                   ExactBlend(old.avg_speed,
                                              u.bucket_avg_speed, u.alpha),
                                   DyAdd(old.avg_speed, u.bucket_avg_speed))
                /\ new.sample_count = old.sample_count + 1
                /\ (upd'[w].saved /\ RowAsLoaded(w)) =>
                       hex_baselines' = {new}
                /\ (u.alpha = R(1, 10) /\ old.avg_count = RInt(20)
                      /\ u.bucket_count = 30) => new.avg_count = RInt(21)
                /\ (u.alpha = R(1, 10) /\ old.avg_speed = RInt(60)
                      /\ u.bucket_avg_speed = RInt(40))
                       => new.avg_speed = RInt(58)
    ]_vars

\* C9: on the first update of a cell (the baseline the call got has
\* sample_count 0: no row) the call sets avg_count to bucket_count, avg_speed
\* to the bucket's speed when there is one (0 otherwise), leaves both
\* variances 0, sets sample_count to 1 and hands that baseline to
\* save_baseline, which stores it when the save succeeds on the row as its
\* session loaded it.
C9_FirstSample ==
    [][\A w \in Workers :
         (UpdReturns(w) /\ upd[w].b.sample_count = 0) =>
            LET u == upd[w]
                new == upd'[w].out
            IN  /\ new.avg_count = RInt(u.bucket_count)
                /\ new.avg_speed = IF IsNone(u.bucket_avg_speed)
                                   THEN RInt(0) ELSE u.bucket_avg_speed
                /\ new.speed_variance = RInt(0)
                /\ new.count_variance = RInt(0)
                /\ new.sample_count = 1
                /\ (upd'[w].saved /\ RowAsLoaded(w)) =>
                       hex_baselines' = {new}
    ]_vars

C9_Witness ==
    \E w \in Workers :
        /\ upd[w].pc = "done"
        /\ upd[w].saved
        /\ upd[w].b = EmptyBaseline
        /\ upd[w].bucket_count = 30
        /\ upd[w].bucket_avg_speed = RInt(40)
        /\ hex_baselines =
               {CellBaseline(RInt(40), RInt(30), RInt(0), RInt(0), 1)}

\* C13: on every update of a cell that is not its first (the stored row has
\* sample_count >= 1 when the call reads it) count_variance becomes
\* (1-alpha)*old_count_variance + alpha * (bucket_count - old_avg_count)^2,
\* old_avg_count being the stored mean before this update, and
\* speed_variance likewise with the pre-update avg_speed whenever the speed
\* mean is blended (speed present, old avg_speed > 0), each the value of
\* that expression in doubles, the square as the power returned it, and so
\* the real value up to rounding; both variances are >= 0.
C13_VarianceFromOldMean ==
    [][\A w \in Workers : \A old \in upd[w].stored :
         (UpdReturns(w) /\ old.sample_count >= 1) =>
            LET u == upd[w]
                new == upd'[w].out
                count_sq == DyMul(DySub(RInt(u.bucket_count), old.avg_count),
                                  DySub(RInt(u.bucket_count), old.avg_count))
                speed_sq == DyMul(DySub(u.bucket_avg_speed, old.avg_speed),
                                  DySub(u.bucket_avg_speed, old.avg_speed))
            IN  /\ \E sq \in PowTwo(RSub(RInt(u.bucket_count),
                                         old.avg_count)) :
                       new.count_variance =
                           ema(old.count_variance, sq, u.alpha)
                /\ DyWithin(new.count_variance,
                            ExactBlend(old.count_variance, count_sq, u.alpha),
                            DyAdd(old.count_variance, count_sq))
                /\ (~IsNone(u.bucket_avg_speed) /\ old.avg_speed[1] > 0) =>
                       /\ \E sq \in PowTwo(RSub(u.bucket_avg_speed,
                                                old.avg_speed)) :
                              new.speed_variance =
                                  ema(old.speed_variance, sq, u.alpha)
                       /\ DyWithin(new.speed_variance,
                                   ExactBlend(old.speed_variance, speed_sq,
                                              u.alpha),
                                   DyAdd(old.speed_variance, speed_sq))
                /\ new.count_variance[1] >= 0
                /\ new.speed_variance[1] >= 0
                /\ (upd'[w].saved /\ RowAsLoaded(w)) =>
                       \A row \in hex_baselines' :
                           /\ row.count_variance = new.count_variance
                           /\ row.speed_variance = new.speed_variance
    ]_vars

\* C10: the stored sample_count of a cell never decreases, whatever the
\* calls' reads and saves meet and however the calls interleave.
C10_SampleCountNeverDecreases ==
    [][\A old \in hex_baselines : \A new \in hex_baselines' :
           new.sample_count >= old.sample_count]_vars

\* C26: the speed average of a cell is seeded once: when a call with a speed
\* sample reads the row that an earlier call with a speed sample stored
\* (whatever that speed was, 0 km/h included), it blends avg_speed and
\* speed_variance by the EMA.
C26_SeededOnce ==
    [][\A w, v \in Workers :
         LET u == upd[w]
             out == upd'[w].out
         IN  (/\ UpdReturns(w)
              /\ v # w
              /\ upd[v].pc = "done"
              /\ upd[v].saved
              /\ ~IsNone(upd[v].bucket_avg_speed)
              /\ u.b = upd[v].out
              /\ ~IsNone(u.bucket_avg_speed)) =>
                 /\ out.avg_speed =
                        ema(u.b.avg_speed, u.bucket_avg_speed, u.alpha)
                 /\ \E speed_sq \in PowTwo(RSub(u.bucket_avg_speed,
                                                u.b.avg_speed)) :
                        out.speed_variance =
                            ema(u.b.speed_variance, speed_sq, u.alpha)
    ]_vars

\* C27: a call whose bucket has no speed sample leaves avg_speed and
\* speed_variance exactly as the cell's stored row had them when the call
\* read it (0 for a cell without a row), in the baseline it returns and, on
\* a successful save of the row as its session loaded it, in the row it
\* stores, while sample_count goes up by one and the count statistics are
\* updated: on a non-first update avg_count and count_variance by the EMA,
\* on the first update avg_count to the bucket's count.
C27_NoSpeedFrame ==
    [][\A w \in Workers :
         \A old \in IF upd[w].stored = {} THEN {EmptyBaseline}
                    ELSE upd[w].stored :
         LET u == upd[w]
             out == upd'[w].out
             cnt == RInt(u.bucket_count)
         IN  (UpdReturns(w) /\ IsNone(u.bucket_avg_speed)) =>
                 /\ out.avg_speed = old.avg_speed
                 /\ out.speed_variance = old.speed_variance
                 /\ out.sample_count = old.sample_count + 1
                 /\ (old.sample_count >= 1 =>
                        /\ out.avg_count = ema(old.avg_count, cnt, u.alpha)
                        /\ \E sq \in PowTwo(RSub(cnt, old.avg_count)) :
                               out.count_variance =
                                   ema(old.count_variance, sq, u.alpha))
                 /\ (old.sample_count = 0 => out.avg_count = cnt)
                 /\ ((upd'[w].saved /\ RowAsLoaded(w)) =>
                        hex_baselines' = {out})
    ]_vars

\* C23: two update_baseline_with_bucket calls for one cell that overlap both
\* take effect: when both have returned with a successful save, each having
\* read a stored row, the stored sample_count is 2 above the lower of the
\* two sample_counts read.
C23_NoLostUpdate ==
    LET w1 == CHOOSE w \in Workers : TRUE
        w2 == CHOOSE w \in Workers : w # w1
        read1 == upd[w1].b.sample_count
        read2 == upd[w2].b.sample_count
    IN  (/\ upd[w1].pc = "done" /\ upd[w1].saved /\ read1 >= 1
         /\ upd[w2].pc = "done" /\ upd[w2].saved /\ read2 >= 1) =>
            \A row \in hex_baselines :
                row.sample_count = Min(read1, read2) + 2

(***************************************************************************)
(* SpecConverge: one caller feeds the same bucket_count, without speed and *)
(* with the same alpha, to update_baseline_with_bucket again and again;    *)
(* the reads succeed, the saves find the store in one of DbStates.         *)
(***************************************************************************)
MaxFeeds == 3

ConvergeWorkers == {"w1"}

ConvergeCountInputs == {0, 13, 30}

ConvergeAlphaInputs == {R(1, 10), R(1, 2), RInt(1)}

\* rows with an average count below and above the counts fed, and no row
ConvergeTables ==
    {{},
     {CellBaseline(RInt(0), RInt(20), RInt(0), RInt(0), 1)},
     {CellBaseline(RInt(60), RInt(40), RInt(100), RInt(25), 10)}}

InitConverge ==
    /\ hex_baselines \in ConvergeTables
    /\ upd = [w \in Workers |-> IdleUpdate]
    /\ updates_started = 0
    /\ ScoreIdle
    /\ PingIdle
    /\ AuxIdle

\* the caller enters update_baseline_with_bucket with the arguments of its
\* previous call and runs get_baseline
ConvergeGetBaseline(w) ==
    /\ upd[w].pc \in {"idle", "done"}
    /\ updates_started < MaxFeeds
    /\ \E c \in ConvergeCountInputs, a \in ConvergeAlphaInputs :
          /\ upd[w].pc = "done" => (c = upd[w].bucket_count /\ a = upd[w].alpha)
          /\ upd' = [upd EXCEPT ![w] =
                        [pc |-> "got", bucket_count |-> c,
                         bucket_avg_speed |-> None, alpha |-> a,
                         stored |-> hex_baselines,
                         b |-> get_baseline("ok", hex_baselines),
                         out |-> EmptyBaseline, seen |-> {},
                         saved |-> FALSE]]
    /\ updates_started' = updates_started + 1
    /\ UNCHANGED <<hex_baselines, scoreVars, pingVars, auxVars>>

NextConverge ==
    \E w \in ConvergeWorkers :
        ConvergeGetBaseline(w) \/ UpdSaveSelect(w) \/ UpdSaveCommit(w)

SpecConverge == InitConverge /\ [][NextConverge]_vars

Between(x, a, b) == (RLe(a, x) /\ RLe(x, b)) \/ (RLe(b, x) /\ RLe(x, a))

\* C28 as stated: feeding the same bucket_count v again and again (0 < alpha
\* <= 1) moves avg_count toward v: on every non-first update the new
\* avg_count lies between the avg_count read and v, its distance to v is
\* (1 - alpha) times the distance before, so it never passes v; a first
\* update puts avg_count on v.
C28_EmaConvergence ==
    [][\A w \in Workers :
         LET u == upd[w]
             out == upd'[w].out
             v == RInt(u.bucket_count)
         IN  UpdReturns(w) =>
                 /\ Between(out.avg_count, u.b.avg_count, v)
                 /\ (u.b.sample_count >= 1 =>
                        DySub(out.avg_count, v) =
                            DyMul(DySub(RInt(1), u.alpha),
                                  DySub(u.b.avg_count, v)))
                 /\ (u.b.sample_count = 0 => out.avg_count = v)
    ]_vars

\* C28, up to rounding: on every non-first update the new avg_count is the
\* blend (1 - alpha) * old + alpha * v within 2^-50 of old + v, so its
\* distance to v is (1 - alpha) times the distance before within that
\* margin, and it is no farther from v than the avg_count read by more than
\* that margin; a first update puts avg_count on v.
C28_EmaConvergenceRounded ==
    [][\A w \in Workers :
         LET u == upd[w]
             out == upd'[w].out
             v == RInt(u.bucket_count)
             old == u.b.avg_count
             scale == DyAdd(DyAbs(old), v)
             margin == DyScale(scale, -50)
         IN  UpdReturns(w) =>
                 /\ (u.b.sample_count >= 1 =>
                        /\ DyWithin(out.avg_count,
                                    ExactBlend(old, v, u.alpha), scale)
                        /\ DyWithin(DySub(out.avg_count, v),
                                    DyMul(DySub(RInt(1), u.alpha),
                                          DySub(old, v)), scale)
                        /\ DyCmp(DyAbs(DySub(out.avg_count, v)),
                                 DyAdd(DyAbs(DySub(old, v)), margin)) <= 0)
                 /\ (u.b.sample_count = 0 => out.avg_count = v)
    ]_vars

\* the second of two feeds of 13 at alpha 0.1 on a cell without a row: the
\* first puts avg_count on 13, the second a rounding above it
C28_Witness ==
    \E w \in Workers :
        /\ upd[w].pc = "done"
        /\ upd[w].saved
        /\ upd[w].bucket_count = 13
        /\ upd[w].alpha = R(1, 10)
        /\ upd[w].b.avg_count = RInt(13)
        /\ upd[w].b.sample_count = 1
        /\ RGt(upd[w].out.avg_count, RInt(13))
        /\ DyWithin(upd[w].out.avg_count, RInt(13), RInt(13))
        /\ hex_baselines = {upd[w].out}

(***************************************************************************)
(* SpecLookup: get_baseline(cell) against a store found in one of          *)
(* DbStates, then calculate_congestion_level on what it returned.          *)
(***************************************************************************)
LookupTables ==
    {{},
     {CellBaseline(RInt(60), RInt(20), RInt(100), RInt(25), 10)},
     {CellBaseline(RInt(60), RInt(20), RInt(100), RInt(25),
                   MIN_SAMPLES_FOR_CALIBRATION)}}

LookupCountInputs ==
    {0, FALLBACK_COUNT_MODERATE, FALLBACK_COUNT_HIGH, FALLBACK_COUNT_HIGH + 5}

LookupSpeedInputs == {None, RInt(10), RInt(30), RInt(50)}

InitLookup ==
    /\ hex_baselines \in LookupTables
    /\ current_count \in LookupCountInputs
    /\ current_avg_speed \in LookupSpeedInputs
    /\ baseline = EmptyBaseline
    /\ verdict = NoVerdict
    /\ lookup = IdleLookup
    /\ upd = [w \in Workers |-> IdleUpdate]
    /\ updates_started = 0
    /\ ZIdle /\ BucketIdle /\ RedisIdle /\ ClockIdle
    /\ PingIdle

\* baseline = get_baseline(cell_id), the store being in some state
LookupGetBaseline ==
    /\ lookup.pc = "idle"
    /\ \E db \in DbStates :
          /\ lookup' = [pc |-> "got", db |-> db]
          /\ baseline' = get_baseline(db, hex_baselines)
    /\ UNCHANGED <<current_count, current_avg_speed, verdict>>
    /\ UNCHANGED <<z_call, bucket_call, redis_up, rd, hs, quiet,
                   accepted>>
    /\ UNCHANGED <<baseVars, pingVars>>

\* calculate_congestion_level(current_count, current_avg_speed, baseline)
LookupScore ==
    /\ lookup.pc = "got"
    /\ lookup' = [lookup EXCEPT !.pc = "scored"]
    /\ verdict' \in calculate_congestion_level(current_count,
                                                current_avg_speed, baseline)
    /\ UNCHANGED <<current_count, current_avg_speed, baseline>>
    /\ UNCHANGED <<z_call, bucket_call, redis_up, rd, hs, quiet,
                   accepted>>
    /\ UNCHANGED <<baseVars, pingVars>>

NextLookup == LookupGetBaseline \/ LookupScore

SpecLookup == InitLookup /\ [][NextLookup]_vars

\* C15: get_baseline always returns to its caller: with the database not
\* configured, no session, a failing query or no row for the cell it returns
\* the empty baseline (sample_count 0, all statistics 0), and scoring with
\* that result gives a fallback verdict, not an error.
C15_SoftFailure ==
    /\ lookup.pc \in {"got", "scored"} =>
           /\ (lookup.db # "ok" \/ hex_baselines = {}) =>
                  /\ baseline = EmptyBaseline
                  /\ baseline.sample_count = 0
                  /\ baseline.avg_speed = RInt(0)
                  /\ baseline.avg_count = RInt(0)
                  /\ baseline.speed_variance = RInt(0)
                  /\ baseline.count_variance = RInt(0)
           /\ (lookup.db = "ok" /\ hex_baselines # {}) =>
                  baseline \in hex_baselines
    /\ lookup.pc = "scored" =>
           /\ verdict.level \in {"LOW", "MODERATE", "HIGH"}
           /\ (lookup.db # "ok" \/ hex_baselines = {}) =>
                  /\ verdict.method = "fallback"
                  /\ verdict.level_reason = "insufficient_history"
                  /\ verdict.level =
                         fallback_congestion(current_count, current_avg_speed)

C15_Witness ==
    /\ lookup.pc = "scored"
    /\ lookup.db = "query_error"
    /\ \E row \in hex_baselines :
           row.sample_count = MIN_SAMPLES_FOR_CALIBRATION
    /\ baseline = EmptyBaseline
    /\ verdict.method = "fallback"
    /\ current_count = FALLBACK_COUNT_HIGH + 5
    /\ current_avg_speed = RInt(50)
    /\ verdict.level = "MODERATE"

(***************************************************************************)
(* Spec: create_ping requests of two workers and manual history saves      *)
(* (POST /v1/history/save) on the Redis keys of one cell.  Every Redis     *)
(* command and every durable save is one step, so requests interleave      *)
(* between them.  No time passes in this specification, so no key          *)
(* expires: redis_ttl holds the expiry each command set.  A run starts     *)
(* with the cell untouched, after a first ping, or after the ping that     *)
(* flushed the first ping's bucket.                                        *)
(***************************************************************************)
\* requests of a run: pings and manual saves together
MaxPings == 2

RATE_LIMIT_WINDOW_SECONDS == 60

RATE_LIMIT_MAX_REQUESTS == 100

BUCKET_TTL_SECONDS == 300

SAVED_FLAG_TTL_SECONDS == 600

ALERT_COUNT == 30

Devices == {"d1", "d2"}

\* ping.timestamp or datetime.now(): the instants requests carry
TimestampInputs == {RInt(0), R(599, 2), RInt(300), RInt(599)}

PingSpeedInputs == {None, RInt(40)}

BucketIds ==
    LET bs == {current_bucket(t) : t \in TimestampInputs}
    IN  bs \cup {b - 1 : b \in bs}

Keys == ({"set", "speeds", "flag"} \X BucketIds) \cup ({"ratelimit"} \X Devices)

\* Redis SADD on a set value; mutant: the key overwritten (SET) by the member
SAddOverwrite(members, m) == {m}

SAdd(members, m) == members \cup {m}

SCard(members) == Cardinality(members)

RECURSIVE SumSeq(_)
\* sum(speeds): the items added one after the other, from the first, to 0
SumSeq(q) ==
    IF q = <<>> THEN RInt(0)
    ELSE RAdd(SumSeq(SubSeq(q, 1, Len(q) - 1)), q[Len(q)])

\* mutant: a bucket without speeds is given the mean 0
MeanOrZero(q) == IF q = <<>> THEN RInt(0) ELSE RDiv(SumSeq(q), RInt(Len(q)))

\* sum(speeds) / len(speeds) if speeds else None
MeanOrNone(q) == IF q = <<>> THEN None ELSE RDiv(SumSeq(q), RInt(Len(q)))

\* check_rate_limit on a counter value: <<counter after r.incr, r.expire
\* follows (count == 1), within the limit>>
check_rate_limit(counter) ==
    LET count == counter + 1
    IN  <<count, count = 1, count <= RATE_LIMIT_MAX_REQUESTS>>

\* cong.save_bucket_to_history: one appended row, or nothing when the store
\* fails; <<returned bool, log afterwards>>.  by is history, the caller that
\* appended the row; the table has no such column.
save_bucket_to_history(db, log, bucket_time, vehicle_count, avg_speed, by) ==
    IF db = "ok"
    THEN <<TRUE, Append(log, [bucket_time |-> bucket_time,
                              vehicle_count |-> vehicle_count,
                              avg_speed |-> avg_speed,
                              by |-> by])>>
    ELSE <<FALSE, log>>

\* flush_completed_bucket_to_history: the command that follows the save,
\* whose returned bool is not looked at
flush_after_save(saved) == "flush_setex"

\* mutant: an empty previous bucket is saved like any other
flush_after_scard_always(prev_count) == "flush_lrange"

\* flush_completed_bucket_to_history: if prev_count == 0: return False
flush_after_scard(prev_count) ==
    IF prev_count = 0 THEN "sadd" ELSE "flush_lrange"

\* history: one more ping accepted at this instant (age 0)
AcceptNow(log) ==
    LET n == IF \E e \in log : e[1] = 0
             THEN (CHOOSE e \in log : e[1] = 0)[2] ELSE 0
    IN  {e \in log : e[1] # 0} \cup {<<0, n + 1>>}

\* a request's locals; flushed is what flush_completed_bucket_to_history
\* returned; of a batch request, pings is batch.pings, todo the devices
\* whose rate check is still to come and limited rate_limited_devices.  seq
\* is history: the request's number among the requests of its worker.
\* save_result is history too: what cong.save_bucket_to_history returned to
\* the request's flush ("saved" for True, "failed" for False, "none" when
\* it was not called); the code does not look at it.
IdleRequest ==
    [pc |-> "idle", device_id |-> "d1", speed_kmh |-> None, bucket |-> 0,
     prev_count |-> 0, prev_avg_speed |-> None, count |-> 0, status |-> 0,
     flushed |-> FALSE, pings |-> <<>>, todo |-> {}, limited |-> {},
     seq |-> 0, save_result |-> "none"]

\* the stores before any ping of the cell; device d2 has had 99 pings
\* accepted in the running window, all for other cells
NoPings ==
    [sets |-> [b \in BucketIds |-> {}],
     speeds |-> [b \in BucketIds |-> <<>>],
     flags |-> {},
     ratelimit |-> [d \in Devices |->
                       IF d = "d2" THEN RATE_LIMIT_MAX_REQUESTS - 1 ELSE 0],
     ttl |-> [k \in Keys |->
                 IF k = <<"ratelimit", "d2">>
                 THEN RATE_LIMIT_WINDOW_SECONDS ELSE -1],
     quiet |-> [b \in BucketIds |-> BUCKET_TTL_SECONDS],
     accepted |-> [d \in Devices |->
                      IF d = "d2" THEN {<<0, RATE_LIMIT_MAX_REQUESTS - 1>>}
                      ELSE {}],
     stream |-> <<>>,
     history |-> <<>>,
     recorded |-> [b \in BucketIds |-> [d \in Devices |-> 0]]]

\* the stores once POST /v1/pings {d1, timestamp 0 s, speed 40} has been
\* answered
OnePing ==
    [NoPings EXCEPT
        !.sets[0] = {"d1"},
        !.speeds[0] = <<RInt(40)>>,
        !.ratelimit["d1"] = 1,
        !.ttl = [k \in Keys |->
                    IF k \in {<<"set", 0>>, <<"speeds", 0>>}
                    THEN BUCKET_TTL_SECONDS
                    ELSE IF k[1] = "ratelimit"
                    THEN RATE_LIMIT_WINDOW_SECONDS ELSE -1],
        !.quiet[0] = 0,
        !.accepted["d1"] = {<<0, 1>>},
        !.stream = <<[event_type |-> "ping_received", device_id |-> "d1",
                      bucket |-> 0, vehicle_count |-> 1]>>,
        !.recorded[0]["d1"] = 1]

\* and once POST /v1/pings {d1, timestamp 300 s, no speed} has been
\* answered as well, its flush having saved bucket 0
TwoPings ==
    [OnePing EXCEPT
        !.sets[1] = {"d1"},
        !.flags = {0},
        !.ratelimit["d1"] = 2,
        !.ttl = [k \in Keys |->
                    IF k = <<"set", 1>> THEN BUCKET_TTL_SECONDS
                    ELSE IF k = <<"flag", 0>> THEN SAVED_FLAG_TTL_SECONDS
                    ELSE OnePing.ttl[k]],
        !.quiet[1] = 0,
        !.accepted["d1"] = {<<0, 2>>},
        !.stream = Append(@, [event_type |-> "ping_received",
                              device_id |-> "d1", bucket |-> 1,
                              vehicle_count |-> 1]),
        !.history = <<[bucket_time |-> 0, vehicle_count |-> 1,
                       avg_speed |-> RInt(40), by |-> "flush"]>>,
        !.recorded[1]["d1"] = 1]

\* no request in progress, the stores as in s
InitFrom(s) ==
    /\ redis_sets = s.sets
    /\ redis_speeds = s.speeds
    /\ redis_flags = s.flags
    /\ ratelimit = s.ratelimit
    /\ redis_ttl = s.ttl
    /\ quiet = s.quiet
    /\ accepted = s.accepted
    /\ stream = s.stream
    /\ bucket_history = s.history
    /\ req = [w \in Workers |-> IdleRequest]
    /\ pings_started = 0
    /\ recorded = s.recorded
    /\ ScoreIdle
    /\ BaselineIdle
    /\ CallIdle

InitEmpty == InitFrom(NoPings)

Init == \E s \in {NoPings, OnePing, TwoPings} : InitFrom(s)

\* create_ping up to r.incr of check_rate_limit: on the counter's first
\* count r.expire follows; else 429, or the bucket is computed and the
\* flush of the previous bucket begins; at most limit requests.
PingArriveWithin(w, limit) ==
    /\ req[w].pc \in {"idle", "done", "rejected", "failed"}
    /\ pings_started < limit
    /\ \E d \in Devices, ts \in TimestampInputs, sp \in PingSpeedInputs :
          LET rl == check_rate_limit(ratelimit[d])
              r0 == [IdleRequest EXCEPT !.device_id = d,
                                        !.speed_kmh = sp,
                                        !.bucket = current_bucket(ts),
                                        !.seq = req[w].seq + 1]
          IN  /\ ratelimit' = [ratelimit EXCEPT ![d] = rl[1]]
              /\ req' = [req EXCEPT ![w] =
                    IF rl[2] THEN [r0 EXCEPT !.pc = "rl_expire"]
                    ELSE IF rl[3] THEN [r0 EXCEPT !.pc = "flush_exists"]
                    ELSE [IdleRequest EXCEPT !.pc = "rejected",
                                             !.device_id = d,
                                             !.status = 429,
                                             !.seq = req[w].seq + 1]]
              /\ accepted' = IF rl[3]
                             THEN [accepted EXCEPT ![d] = AcceptNow(@)]
                             ELSE accepted
    /\ pings_started' = pings_started + 1
    /\ UNCHANGED <<redis_sets, redis_speeds, redis_flags, redis_ttl, stream,
                   bucket_history, recorded, scoreVars, baseVars, callVars,
                   quiet>>

PingArrive(w) == PingArriveWithin(w, MaxPings - hs.started)

\* check_rate_limit: r.expire(key, RATE_LIMIT_WINDOW_SECONDS) after the
\* counter's first count, and the return (1 <= RATE_LIMIT_MAX_REQUESTS);
\* EXPIRE does nothing to a key that does not exist
PingRateExpire(w) ==
    /\ req[w].pc = "rl_expire"
    /\ redis_ttl' = IF ratelimit[req[w].device_id] = 0 THEN redis_ttl
                    ELSE [redis_ttl EXCEPT
                             ![<<"ratelimit", req[w].device_id>>] =
                                 RATE_LIMIT_WINDOW_SECONDS]
    /\ req' = [req EXCEPT ![w].pc = "flush_exists"]
    /\ UNCHANGED <<redis_sets, redis_speeds, redis_flags, ratelimit, stream,
                   bucket_history, pings_started, recorded, scoreVars,
                   baseVars, auxVars>>

\* flush_completed_bucket_to_history: r.exists(saved_flag_key)
FlushExists(w) ==
    /\ req[w].pc = "flush_exists"
    /\ req' = [req EXCEPT ![w].pc =
                  IF (req[w].bucket - 1) \in redis_flags
                  THEN "sadd" ELSE "flush_scard",
                           ![w].flushed = FALSE]
    /\ UNCHANGED <<redis_sets, redis_speeds, redis_flags, redis_ttl, ratelimit,
                   stream, bucket_history, pings_started, recorded,
                   scoreVars, baseVars, auxVars>>

\* flush_completed_bucket_to_history: prev_count = int(r.scard(prev_key) or 0)
FlushScard(w) ==
    /\ req[w].pc = "flush_scard"
    /\ LET prev_count == SCard(redis_sets[req[w].bucket - 1])
       IN  req' = [req EXCEPT ![w].prev_count = prev_count,
                              ![w].pc = flush_after_scard(prev_count),
                              ![w].flushed = FALSE]
    /\ UNCHANGED <<redis_sets, redis_speeds, redis_flags, redis_ttl, ratelimit,
                   stream, bucket_history, pings_started, recorded,
                   scoreVars, baseVars, auxVars>>

\* flush_completed_bucket_to_history: get_bucket_speeds (r.lrange) and the
\* mean of what it returned
FlushLrange(w) ==
    /\ req[w].pc = "flush_lrange"
    /\ req' = [req EXCEPT ![w].prev_avg_speed =
                              MeanOrNone(redis_speeds[req[w].bucket - 1]),
                          ![w].pc = "flush_save"]
    /\ UNCHANGED <<redis_sets, redis_speeds, redis_flags, redis_ttl, ratelimit,
                   stream, bucket_history, pings_started, recorded,
                   scoreVars, baseVars, auxVars>>

\* flush_completed_bucket_to_history: the bucket start time and
\* cong.save_bucket_to_history
FlushSave(w) ==
    /\ req[w].pc = "flush_save"
    /\ \E db \in DbStates :
          LET prev_bucket == req[w].bucket - 1
              bucket_time == prev_bucket * WINDOW_SECONDS
              sv == save_bucket_to_history(db, bucket_history, bucket_time,
                                           req[w].prev_count,
                                           req[w].prev_avg_speed, "flush")
          IN  /\ bucket_history' = sv[2]
              /\ req' = [req EXCEPT ![w].pc = flush_after_save(sv[1]),
                                     ![w].prev_count = 0,
                                     ![w].prev_avg_speed = None,
                                     ![w].save_result =
                                         IF sv[1] THEN "saved" ELSE "failed"]
    /\ UNCHANGED <<redis_sets, redis_speeds, redis_flags, redis_ttl, ratelimit,
                   stream, pings_started, recorded, scoreVars, baseVars, auxVars>>

\* flush_completed_bucket_to_history: r.setex(saved_flag_key, 600, "1")
FlushSetex(w) ==
    /\ req[w].pc = "flush_setex"
    /\ redis_flags' = redis_flags \cup {req[w].bucket - 1}
    /\ redis_ttl' = [redis_ttl EXCEPT ![<<"flag", req[w].bucket - 1>>] =
                        SAVED_FLAG_TTL_SECONDS]
    /\ req' = [req EXCEPT ![w].pc = "sadd", ![w].flushed = TRUE]
    /\ UNCHANGED <<redis_sets, redis_speeds, ratelimit, stream, bucket_history,
                   pings_started, recorded, scoreVars, baseVars, auxVars>>

\* create_ping: r.sadd(key, ping.device_id)
PingSadd(w) ==
    /\ req[w].pc = "sadd"
    /\ LET b == req[w].bucket
           d == req[w].device_id
       IN  /\ redis_sets' = [redis_sets EXCEPT ![b] = SAdd(@, d)]
           /\ recorded' = [recorded EXCEPT ![b][d] = @ + 1]
           /\ quiet' = [quiet EXCEPT ![b] = 0]
    /\ req' = [req EXCEPT ![w].pc = "scard"]
    /\ UNCHANGED <<redis_speeds, redis_flags, redis_ttl, ratelimit, stream,
                   bucket_history, pings_started, scoreVars, baseVars,
                   callVars, accepted>>

\* create_ping: count = r.scard(key)
PingScard(w) ==
    /\ req[w].pc = "scard"
    /\ req' = [req EXCEPT ![w].count = SCard(redis_sets[req[w].bucket]),
                          ![w].pc = "expire"]
    /\ UNCHANGED <<redis_sets, redis_speeds, redis_flags, redis_ttl, ratelimit,
                   stream, bucket_history, pings_started, recorded,
                   scoreVars, baseVars, auxVars>>

\* create_ping: r.expire(key, 300); EXPIRE does nothing to a key that does
\* not exist (an empty set)
PingExpire(w) ==
    /\ req[w].pc = "expire"
    /\ redis_ttl' = IF redis_sets[req[w].bucket] = {} THEN redis_ttl
                    ELSE [redis_ttl EXCEPT ![<<"set", req[w].bucket>>] =
                             BUCKET_TTL_SECONDS]
    /\ quiet' = [quiet EXCEPT ![req[w].bucket] = 0]
    /\ req' = [req EXCEPT ![w].pc = IF IsNone(req[w].speed_kmh)
                                    THEN "publish" ELSE "rpush"]
    /\ UNCHANGED <<redis_sets, redis_speeds, redis_flags, ratelimit, stream,
                   bucket_history, pings_started, recorded,
                   scoreVars, baseVars, callVars, accepted>>

\* cong.record_speed: r.rpush(key, speed_kmh); a list RPUSH creates has no
\* expiry
PingRpush(w) ==
    /\ req[w].pc = "rpush"
    /\ redis_speeds' = [redis_speeds EXCEPT ![req[w].bucket] =
                           Append(@, req[w].speed_kmh)]
    /\ quiet' = [quiet EXCEPT ![req[w].bucket] = 0]
    /\ req' = [req EXCEPT ![w].pc = "speed_expire"]
    /\ UNCHANGED <<redis_sets, redis_flags, redis_ttl, ratelimit, stream,
                   bucket_history, pings_started, recorded, scoreVars,
                   baseVars, callVars, accepted>>

\* cong.record_speed: r.expire(key, 300); EXPIRE does nothing to a key that
\* does not exist (an empty list)
PingSpeedExpire(w) ==
    /\ req[w].pc = "speed_expire"
    /\ redis_ttl' = IF redis_speeds[req[w].bucket] = <<>> THEN redis_ttl
                    ELSE [redis_ttl EXCEPT ![<<"speeds", req[w].bucket>>] =
                             BUCKET_TTL_SECONDS]
    /\ quiet' = [quiet EXCEPT ![req[w].bucket] = 0]
    /\ req' = [req EXCEPT ![w].pc = "publish"]
    /\ UNCHANGED <<redis_sets, redis_speeds, redis_flags, ratelimit, stream,
                   bucket_history, pings_started, recorded, scoreVars,
                   baseVars, callVars, accepted>>

PingEvent(r) ==
    [event_type |-> "ping_received", device_id |-> r.device_id,
     bucket |-> r.bucket, vehicle_count |-> r.count]

AlertEvent(r) ==
    [event_type |-> "high_congestion", device_id |-> "", bucket |-> -1,
     vehicle_count |-> r.count]

\* create_ping's response: status 200 with device_id, bucket and
\* bucket_count = count; the request's other locals end with it
PingResponse(r) ==
    [IdleRequest EXCEPT !.pc = "done", !.status = 200,
                        !.device_id = r.device_id,
                        !.bucket = r.bucket,
                        !.count = r.count,
                        !.seq = r.seq]

\* create_ping: publish_ping_event (XADD); when count >= 30 the alert
\* follows, else the response
PingPublish(w) ==
    /\ req[w].pc = "publish"
    /\ stream' = Append(stream, PingEvent(req[w]))
    /\ req' = [req EXCEPT ![w] =
                  IF req[w].count >= ALERT_COUNT
                  THEN [req[w] EXCEPT !.pc = "alert"]
                  ELSE PingResponse(req[w])]
    /\ UNCHANGED <<redis_sets, redis_speeds, redis_flags, redis_ttl, ratelimit,
                   bucket_history, pings_started, recorded,
                   scoreVars, baseVars, auxVars>>

\* create_ping: publish_high_congestion_alert (XADD) and the response
PingAlert(w) ==
    /\ req[w].pc = "alert"
    /\ stream' = Append(stream, AlertEvent(req[w]))
    /\ req' = [req EXCEPT ![w] = PingResponse(req[w])]
    /\ UNCHANGED <<redis_sets, redis_speeds, redis_flags, redis_ttl, ratelimit,
                   bucket_history, pings_started, recorded,
                   scoreVars, baseVars, auxVars>>

\* cong.get_cell_percentiles(cell_id): the durable snapshot the read scores
\* against, uncalibrated when the store fails or has no history
get_cell_percentiles(db, table) == get_baseline(db, table)

\* POST /v1/history/save arrives; bucket = int(now.timestamp()) // 300
SaveArrive ==
    /\ hs.pc \in {"idle", "done"}
    /\ pings_started + hs.started < MaxPings
    /\ \E ts \in TimestampInputs :
          hs' = [IdleSave EXCEPT !.pc = "save_scard",
                                 !.bucket = current_bucket(ts),
                                 !.started = hs.started + 1]
    /\ UNCHANGED <<z_call, bucket_call, lookup, redis_up, rd, quiet, accepted>>
    /\ UNCHANGED <<scoreVars, baseVars, pingVars>>

\* save_bucket_to_history (endpoint): count = int(r.scard(key) or 0)
SaveScard ==
    /\ hs.pc = "save_scard"
    /\ hs' = [hs EXCEPT !.count = SCard(redis_sets[hs.bucket]),
                        !.pc = "save_lrange"]
    /\ UNCHANGED <<z_call, bucket_call, lookup, redis_up, rd, quiet, accepted>>
    /\ UNCHANGED <<scoreVars, baseVars, pingVars>>

\* save_bucket_to_history (endpoint): get_bucket_speeds and the mean
SaveLrange ==
    /\ hs.pc = "save_lrange"
    /\ hs' = [hs EXCEPT !.avg_speed = MeanOrNone(redis_speeds[hs.bucket]),
                        !.pc = "save_row"]
    /\ UNCHANGED <<z_call, bucket_call, lookup, redis_up, rd, quiet, accepted>>
    /\ UNCHANGED <<scoreVars, baseVars, pingVars>>

\* save_bucket_to_history (endpoint): the bucket start time and
\* cong.save_bucket_to_history, whatever the bucket's marker and count; of
\* the request's locals the model keeps what the save returned
SaveRow ==
    /\ hs.pc = "save_row"
    /\ \E db \in DbStates :
          LET sv == save_bucket_to_history(db, bucket_history,
                                           hs.bucket * WINDOW_SECONDS,
                                           hs.count, hs.avg_speed, "endpoint")
          IN  /\ bucket_history' = sv[2]
              /\ hs' = [IdleSave EXCEPT !.saved = sv[1],
                                        !.pc = "save_percentiles",
                                        !.started = hs.started]
    /\ UNCHANGED <<redis_sets, redis_speeds, redis_flags, redis_ttl, ratelimit,
                   stream, req, pings_started, recorded>>
    /\ UNCHANGED <<z_call, bucket_call, lookup, redis_up, rd, quiet, accepted>>
    /\ UNCHANGED <<scoreVars, baseVars>>

\* save_bucket_to_history (endpoint): cong.get_cell_percentiles and the
\* response
SavePercentiles ==
    /\ hs.pc = "save_percentiles"
    /\ \E db \in DbStates :
          LET percentiles == get_cell_percentiles(db, hex_baselines)
          IN  hs' = [hs EXCEPT !.sample_count = percentiles.sample_count,
                              !.status = 200, !.pc = "done"]
    /\ UNCHANGED <<z_call, bucket_call, lookup, redis_up, rd, quiet, accepted>>
    /\ UNCHANGED <<scoreVars, baseVars, pingVars>>

\* the alert is no step of Next: no bucket of Spec reaches 30 devices
Next ==
    \/ \E w \in Workers :
          \/ PingArrive(w)
          \/ PingRateExpire(w)
          \/ FlushExists(w)
          \/ FlushScard(w)
          \/ FlushLrange(w)
          \/ FlushSave(w)
          \/ FlushSetex(w)
          \/ PingSadd(w)
          \/ PingScard(w)
          \/ PingExpire(w)
          \/ PingRpush(w)
          \/ PingSpeedExpire(w)
          \/ PingPublish(w)
    \/ SaveArrive
    \/ SaveScard
    \/ SaveLrange
    \/ SaveRow
    \/ SavePercentiles

Spec == Init /\ [][Next]_vars

\* the distinct devices whose pings were recorded in bucket b
DistinctRecorded(b) == {d \in Devices : recorded[b][d] > 0}

\* C6: a bucket's count is the number of distinct device ids recorded in it:
\* after every SADD the set's cardinality is that number, a ping of a device
\* already in the bucket leaves the count as it was, the count a ping reads
\* is that number, and the ping's response carries the count it read.
C6_DedupCount ==
    [][\A w \in Workers :
         LET b == req[w].bucket
             d == req[w].device_id
         IN  /\ (req[w].pc = "sadd" /\ req'[w].pc = "scard") =>
                   /\ SCard(redis_sets'[b]) =
                          Cardinality({x \in Devices : recorded'[b][x] > 0})
                   /\ (recorded[b][d] > 0 =>
                          SCard(redis_sets'[b]) = SCard(redis_sets[b]))
                   /\ (recorded[b][d] = 0 =>
                          SCard(redis_sets'[b]) = SCard(redis_sets[b]) + 1)
             /\ (req[w].pc = "scard" /\ req'[w].pc = "expire") =>
                   req'[w].count = Cardinality(DistinctRecorded(b))
             /\ (req[w].pc = "publish" /\ req'[w].pc = "done") =>
                   /\ req'[w].status = 200
                   /\ req'[w].count = req[w].count
    ]_vars

C6_Witness ==
    \E w \in Workers :
        /\ req[w].pc = "done"
        /\ req[w].status = 200
        /\ recorded[req[w].bucket][req[w].device_id] >= 2
        /\ DistinctRecorded(req[w].bucket) = {req[w].device_id}
        /\ req[w].count = 1
        /\ SCard(redis_sets[req[w].bucket]) = 1

\* rows of the durable log saved for bucket b
SavedRows(b) ==
    {i \in DOMAIN bucket_history :
        bucket_history[i].bucket_time = b * WINDOW_SECONDS}

\* those of them that flush_completed_bucket_to_history saved
FlushedRows(b) == {i \in SavedRows(b) : bucket_history[i].by = "flush"}

\* C7: whatever the interleaving of the pings that arrive in bucket b, the
\* completed bucket b-1 is saved to durable storage by
\* flush_completed_bucket_to_history at most once.
C7_FlushAtMostOnce ==
    \A b \in BucketIds : Cardinality(FlushedRows(b)) <= 1

\* worker w takes a step: its request moves on, or a new request of its
\* own (a higher seq) takes the place of the one it has answered
Steps(w) == req'[w] # req[w]

\* C16: when the durable write of a flush fails, the ping that triggered the
\* flush goes on: the marker of the completed bucket is set all the same,
\* the ping is recorded in its live bucket and answered 200; the completed
\* bucket is dropped for good: a ping that finds the marker skips the flush,
\* and no other ping makes the write for the bucket once it has failed for
\* one.
C16_FailedFlushIsDropped ==
    [][\A w \in Workers :
         LET r == req[w]
             n == req'[w]
         IN  /\ (r.pc = "flush_save" /\ Steps(w)
                    /\ n.save_result = "failed") =>
                   /\ bucket_history' = bucket_history
                   /\ n.pc = "flush_setex"
                   /\ n.status = 0
             /\ (r.pc = "flush_setex" /\ Steps(w)) =>
                   /\ (r.bucket - 1) \in redis_flags'
                   /\ n.pc = "sadd"
             /\ (r.pc = "sadd" /\ Steps(w)) =>
                   /\ r.device_id \in redis_sets'[r.bucket]
                   /\ n.pc = "scard"
             /\ (r.pc = "scard" /\ Steps(w)) => n.pc = "expire"
             /\ (r.pc = "expire" /\ Steps(w)) =>
                   n.pc \in {"rpush", "publish"}
             /\ (r.pc = "rpush" /\ Steps(w)) => n.pc = "speed_expire"
             /\ (r.pc = "speed_expire" /\ Steps(w)) => n.pc = "publish"
             /\ (r.pc = "publish" /\ Steps(w)) =>
                   /\ n.pc = "done"
                   /\ n.status = 200
             /\ (r.pc = "flush_exists" /\ Steps(w)
                    /\ (r.bucket - 1) \in redis_flags) =>
                   /\ n.pc = "sadd"
                   /\ bucket_history' = bucket_history
             /\ redis_flags \subseteq redis_flags'
             /\ \A v \in Workers \ {w} :
                   (req[v].save_result = "failed"
                       /\ req[v].bucket = r.bucket) =>
                      ~(r.pc = "flush_save" /\ Steps(w))
    ]_vars

\* C24: flush_completed_bucket_to_history changes nothing and returns False
\* when the marker of the previous bucket exists (the bucket's data is not
\* read) and when the previous bucket has no recorded device (nothing is
\* saved, no marker is set).
C24_FlushNoOp ==
    [][\A w \in Workers :
         LET r == req[w]
             n == req'[w]
             nothing == /\ bucket_history' = bucket_history
                        /\ redis_flags' = redis_flags
                        /\ redis_sets' = redis_sets
                        /\ redis_speeds' = redis_speeds
                        /\ redis_ttl' = redis_ttl
         IN  /\ (r.pc = "flush_exists" /\ Steps(w)
                    /\ (r.bucket - 1) \in redis_flags) =>
                   /\ nothing
                   /\ n.pc = "sadd"
                   /\ n.flushed = FALSE
                   /\ n.prev_count = r.prev_count
             /\ (r.pc = "flush_scard" /\ Steps(w)
                    /\ redis_sets[r.bucket - 1] = {}) =>
                   /\ nothing
                   /\ n.pc = "sadd"
                   /\ n.flushed = FALSE
    ]_vars

C24_Witness ==
    \E w, v \in Workers :
        /\ req[w].pc = "sadd"
        /\ ~req[w].flushed
        /\ (req[w].bucket - 1) \in redis_flags
        /\ redis_sets[req[w].bucket - 1] # {}
        /\ req[w].prev_count = 0
        /\ req[v].pc = "done"
        /\ req[v].status = 200
        /\ (req[v].bucket - 1) \notin redis_flags
        /\ redis_sets[req[v].bucket - 1] = {}

\* the flush of worker w reads the completed bucket: its unique-device
\* count, then the mean of its recorded speeds (none when it has no speed)
C25_Reads(w) ==
    LET r == req[w]
        n == req'[w]
        prev == r.bucket - 1
        q == redis_speeds[prev]
    IN  /\ (r.pc = "flush_scard" /\ Steps(w) /\ redis_sets[prev] # {}) =>
              /\ n.pc = "flush_lrange"
              /\ n.prev_count = Cardinality(DistinctRecorded(prev))
        /\ (r.pc = "flush_lrange" /\ Steps(w)) =>
              /\ n.pc = "flush_save"
              /\ n.prev_count = r.prev_count
              /\ IF Len(q) = 0 THEN IsNone(n.prev_avg_speed)
                 ELSE n.prev_avg_speed = RDiv(SumSeq(q), RInt(Len(q)))

\* this step appends exactly one record to the durable log, carrying the
\* count and the mean worker w's flush read and the start time (b-1)*300
C25_OneRecord(w) ==
    LET r == req[w]
        last == bucket_history'[Len(bucket_history')]
    IN  /\ Len(bucket_history') = Len(bucket_history) + 1
        /\ SubSeq(bucket_history', 1, Len(bucket_history)) = bucket_history
        /\ last.vehicle_count = r.prev_count
        /\ last.bucket_time = (r.bucket - 1) * 300
        /\ last.avg_speed = r.prev_avg_speed

\* the flush of worker w sets the marker with a TTL of 600 seconds and
\* returns True
C25_Marks(w) ==
    LET r == req[w]
        n == req'[w]
        prev == r.bucket - 1
    IN  (r.pc = "flush_setex" /\ Steps(w)) =>
            /\ prev \in redis_flags'
            /\ redis_ttl'[<<"flag", prev>>] = 600
            /\ n.flushed = TRUE
            /\ n.pc = "sadd"
            /\ bucket_history' = bucket_history

ReadArrive ==
    /\ rd.pc \in {"idle", "done", "failed"}
    /\ \E ts \in TimestampInputs :
          rd' = [IdleRead EXCEPT !.pc = "read_scard",
                                 !.bucket = current_bucket(ts)]
    /\ UNCHANGED <<z_call, bucket_call, lookup, redis_up, hs, quiet,
                   accepted>>
    /\ UNCHANGED <<scoreVars, baseVars, pingVars>>

\* congestion: count = int(r.scard(key) or 0)
ReadScard ==
    /\ rd.pc = "read_scard"
    /\ redis_up
    /\ rd' = [rd EXCEPT !.count = SCard(redis_sets[rd.bucket]),
                        !.pc = "read_lrange"]
    /\ UNCHANGED <<z_call, bucket_call, lookup, redis_up, hs, quiet,
                   accepted>>
    /\ UNCHANGED <<scoreVars, baseVars, pingVars>>

\* congestion: speeds = cong.get_bucket_speeds(...); avg_speed = mean or None
ReadLrange ==
    /\ rd.pc = "read_lrange"
    /\ redis_up
    /\ rd' = [rd EXCEPT !.avg_speed = MeanOrNone(redis_speeds[rd.bucket]),
                        !.pc = "read_score"]
    /\ UNCHANGED <<z_call, bucket_call, lookup, redis_up, hs, quiet,
                   accepted>>
    /\ UNCHANGED <<scoreVars, baseVars, pingVars>>

\* congestion: the snapshot, calculate_congestion_level and the response
ReadScore ==
    /\ rd.pc = "read_score"
    /\ \E db \in DbStates :
          \E v \in calculate_congestion_level(
                       rd.count, rd.avg_speed,
                       get_cell_percentiles(db, hex_baselines)) :
             rd' = [rd EXCEPT !.level = v.level, !.status = 200,
                              !.pc = "done"]
    /\ UNCHANGED <<z_call, bucket_call, lookup, redis_up, hs, quiet,
                   accepted>>
    /\ UNCHANGED <<scoreVars, baseVars, pingVars>>

\* congestion: a Redis command raises RedisError, which nothing catches: the
\* request ends with status 500
ReadRedisError ==
    /\ rd.pc \in {"read_scard", "read_lrange"}
    /\ ~redis_up
    /\ rd' = [IdleRead EXCEPT !.pc = "failed", !.status = 500,
                              !.bucket = rd.bucket]
    /\ UNCHANGED <<z_call, bucket_call, lookup, redis_up, hs, quiet,
                   accepted>>
    /\ UNCHANGED <<scoreVars, baseVars, pingVars>>

(***************************************************************************)
(* SpecOutage: create_ping requests of one worker and congestion reads     *)
(* while Redis becomes unreachable and reachable again.  A command sent    *)
(* to an unreachable Redis raises RedisError in the client.                *)
(***************************************************************************)
MaxOutagePings == 2

OutageWorkers == {"w1"}

\* the request's positions at which its next step is a Redis command
RedisCommandPcs ==
    {"rl_expire", "flush_exists", "flush_scard", "flush_lrange",
     "flush_setex", "sadd", "scard", "expire", "rpush", "speed_expire",
     "publish", "alert"}

\* Redis reachable and empty, as in Init
InitOutage == InitEmpty

RedisDown ==
    /\ redis_up
    /\ redis_up' = FALSE
    /\ UNCHANGED <<z_call, bucket_call, lookup, rd, hs, quiet,
                   accepted>>
    /\ UNCHANGED <<scoreVars, baseVars, pingVars>>

RedisUp ==
    /\ ~redis_up
    /\ redis_up' = TRUE
    /\ UNCHANGED <<z_call, bucket_call, lookup, rd, hs, quiet,
                   accepted>>
    /\ UNCHANGED <<scoreVars, baseVars, pingVars>>

\* create_ping: r.incr in check_rate_limit raises RedisError; nothing
\* catches it and the request ends with status 500
PingArriveDown(w) ==
    /\ req[w].pc \in {"idle", "done", "rejected", "failed"}
    /\ pings_started < MaxOutagePings
    /\ ~redis_up
    /\ \E d \in Devices :
          req' = [req EXCEPT ![w] =
                     [IdleRequest EXCEPT !.pc = "failed", !.device_id = d,
                                         !.status = 500,
                                         !.seq = req[w].seq + 1]]
    /\ pings_started' = pings_started + 1
    /\ UNCHANGED <<redis_sets, redis_speeds, redis_flags, redis_ttl, ratelimit,
                   stream, bucket_history, recorded, scoreVars, baseVars,
                   auxVars>>

\* create_ping: a later Redis command raises RedisError; the request ends
\* with status 500, what it wrote before stays
PingRedisError(w) ==
    /\ req[w].pc \in RedisCommandPcs
    /\ ~redis_up
    /\ req' = [req EXCEPT ![w] =
                  [IdleRequest EXCEPT !.pc = "failed", !.status = 500,
                                      !.device_id = req[w].device_id,
                                      !.bucket = req[w].bucket,
                                      !.seq = req[w].seq]]
    /\ UNCHANGED <<redis_sets, redis_speeds, redis_flags, redis_ttl, ratelimit,
                   stream, bucket_history, pings_started, recorded,
                   scoreVars, baseVars, auxVars>>

NextOutage ==
    \/ RedisDown
    \/ RedisUp
    \/ ReadArrive
    \/ ReadScard
    \/ ReadLrange
    \/ ReadScore
    \/ ReadRedisError
    \/ \E w \in OutageWorkers :
          \/ PingArriveDown(w)
          \/ PingRedisError(w)
          \/ (redis_up /\ PingArriveWithin(w, MaxOutagePings))
          \/ (redis_up /\ PingRateExpire(w))
          \/ (redis_up /\ FlushExists(w))
          \/ (redis_up /\ FlushScard(w))
          \/ (redis_up /\ FlushLrange(w))
          \/ FlushSave(w)
          \/ (redis_up /\ FlushSetex(w))
          \/ (redis_up /\ PingSadd(w))
          \/ (redis_up /\ PingScard(w))
          \/ (redis_up /\ PingExpire(w))
          \/ (redis_up /\ PingRpush(w))
          \/ (redis_up /\ PingSpeedExpire(w))
          \/ (redis_up /\ PingPublish(w))

SpecOutage == InitOutage /\ [][NextOutage]_vars

\* C17: with Redis unavailable no request fails: a congestion read counts
\* as count 0 with no speed and still returns a verdict (status 200), and a
\* ping is still answered with a success response.
C17_NoRequestFails ==
    /\ rd.status # 500
    /\ \A w \in Workers : req[w].status # 500
    /\ rd.pc # "failed"
    /\ \A w \in Workers : req[w].pc # "failed"

(***************************************************************************)
(* The passing of time in Redis.  redis_ttl holds each key's remaining     *)
(* seconds; a key whose remaining time runs out is deleted with all it     *)
(* holds, and a key without expiry stays.                                  *)
(***************************************************************************)
Expired(ttl, dt) == ttl # -1 /\ ttl <= dt

AgeTtl(ttl, dt) == IF ttl = -1 \/ ttl <= dt THEN -1 ELSE ttl - dt

\* dt seconds pass
TimePasses(dt) ==
    /\ redis_ttl' = [k \in Keys |-> AgeTtl(redis_ttl[k], dt)]
    /\ redis_sets' = [b \in BucketIds |->
                         IF Expired(redis_ttl[<<"set", b>>], dt)
                         THEN {} ELSE redis_sets[b]]
    /\ redis_speeds' = [b \in BucketIds |->
                           IF Expired(redis_ttl[<<"speeds", b>>], dt)
                           THEN <<>> ELSE redis_speeds[b]]
    /\ redis_flags' = {b \in redis_flags :
                          ~Expired(redis_ttl[<<"flag", b>>], dt)}
    /\ ratelimit' = [d \in Devices |->
                        IF Expired(redis_ttl[<<"ratelimit", d>>], dt)
                        THEN 0 ELSE ratelimit[d]]
    /\ quiet' = [b \in BucketIds |-> Min(quiet[b] + dt, BUCKET_TTL_SECONDS)]
    /\ accepted' = [d \in Devices |->
                       {<<e[1] + dt, e[2]>> :
                           e \in {x \in accepted[d] :
                                     x[1] + dt < RATE_LIMIT_WINDOW_SECONDS}}]
    /\ UNCHANGED <<stream, bucket_history, req, pings_started, recorded,
                   scoreVars, baseVars, callVars>>

(***************************************************************************)
(* SpecTtl: create_ping requests of one worker and congestion reads while  *)
(* time passes, between requests and between the commands of a request.    *)
(***************************************************************************)
MaxTtlPings == 2

TtlWorkers == {"w1"}

TtlTickInputs == {100}

TtlTick == \E dt \in TtlTickInputs : TimePasses(dt)

NextTtl ==
    \/ TtlTick
    \/ ReadArrive
    \/ ReadScard
    \/ ReadLrange
    \/ ReadScore
    \/ \E w \in TtlWorkers :
          \/ PingArriveWithin(w, MaxTtlPings)
          \/ PingRateExpire(w)
          \/ FlushExists(w)
          \/ FlushScard(w)
          \/ FlushLrange(w)
          \/ FlushSave(w)
          \/ FlushSetex(w)
          \/ PingSadd(w)
          \/ PingScard(w)
          \/ PingExpire(w)
          \/ PingRpush(w)
          \/ PingSpeedExpire(w)
          \/ PingPublish(w)

SpecTtl == InitEmpty /\ [][NextTtl]_vars

\* a ping has written to bucket b and its EXPIRE is still to come
WriteInFlight(b) ==
    \E w \in Workers :
        /\ req[w].bucket = b
        /\ req[w].pc \in {"scard", "expire", "speed_expire"}

\* C18: every accepted ping resets the expiry of its bucket's device set to
\* 300 seconds, and of the bucket's speed list to 300 seconds when it
\* carries a speed; a bucket no ping has written to for 300 seconds is gone
\* (no explicit delete), and a read of it gives count 0 and no average speed
\* and is answered 200.
C18_TtlRefresh ==
    [][
        /\ \A w \in Workers :
            /\ (req[w].pc = "expire" /\ Steps(w)) =>
                   redis_ttl'[<<"set", req[w].bucket>>] = 300
            /\ (req[w].pc = "speed_expire" /\ Steps(w)) =>
                   redis_ttl'[<<"speeds", req[w].bucket>>] = 300
        /\ \A b \in BucketIds :
            (quiet'[b] >= 300 /\ ~WriteInFlight(b)') =>
                (redis_sets'[b] = {} /\ redis_speeds'[b] = <<>>)
        /\ (rd.pc = "read_scard" /\ rd'.pc = "read_lrange"
              /\ redis_sets[rd.bucket] = {}) => rd'.count = 0
        /\ (rd.pc = "read_lrange" /\ rd'.pc = "read_score"
              /\ redis_speeds[rd.bucket] = <<>>) => IsNone(rd'.avg_speed)
        /\ (rd.pc = "read_score" /\ rd' # rd) => rd'.status = 200
        /\ rd'.status # 500
    ]_vars

\* C30: in every reachable state of Redis a bucket whose speed list is
\* non-empty has a non-empty device set, and a congestion read never scores
\* a speed average together with count 0.
C30_SpeedsImplyDevices ==
    /\ \A b \in BucketIds : redis_speeds[b] # <<>> => redis_sets[b] # {}
    /\ rd.pc = "read_score" => ~(rd.count = 0 /\ ~IsNone(rd.avg_speed))

(***************************************************************************)
(* SpecRate: check_rate_limit for the pings of device d1, handled one at   *)
(* a time, while time passes in steps of 20 seconds.  At the start d1 has  *)
(* had 99 pings accepted in the running window, one 40 seconds ago, which  *)
(* created the counter, and 98 just now, all for other cells; the pings    *)
(* of this run carry no speed and fall in bucket 0, whose predecessor is   *)
(* empty, so the flush saves nothing.                                      *)
(***************************************************************************)
MaxRatePings == 4

RateWorkers == {"w1"}

RateTickInputs == {20}

InitRate ==
    /\ redis_sets = [b \in BucketIds |-> {}]
    /\ redis_speeds = [b \in BucketIds |-> <<>>]
    /\ redis_flags = {}
    /\ ratelimit = [d \in Devices |->
                       IF d = "d1" THEN RATE_LIMIT_MAX_REQUESTS - 1 ELSE 0]
    /\ redis_ttl = [k \in Keys |->
                       IF k = <<"ratelimit", "d1">>
                       THEN RATE_LIMIT_WINDOW_SECONDS - 40 ELSE -1]
    /\ quiet = [b \in BucketIds |-> BUCKET_TTL_SECONDS]
    /\ accepted = [d \in Devices |->
                      IF d = "d1"
                      THEN {<<40, 1>>, <<0, RATE_LIMIT_MAX_REQUESTS - 2>>}
                      ELSE {}]
    /\ stream = <<>>
    /\ bucket_history = <<>>
    /\ req = [w \in Workers |-> IdleRequest]
    /\ pings_started = 0
    /\ recorded = [b \in BucketIds |-> [d \in Devices |-> 0]]
    /\ ScoreIdle
    /\ BaselineIdle
    /\ CallIdle

RateTick == \E dt \in RateTickInputs : TimePasses(dt)

\* a ping of d1 without speed, in bucket 0
RatePingArrive(w) ==
    /\ PingArriveWithin(w, MaxRatePings)
    /\ req'[w].device_id = "d1"
    /\ req'[w].bucket = 0
    /\ IsNone(req'[w].speed_kmh)

NextRate ==
    \/ RateTick
    \/ \E w \in RateWorkers :
          \/ RatePingArrive(w)
          \/ PingRateExpire(w)
          \/ FlushExists(w)
          \/ FlushScard(w)
          \/ PingSadd(w)
          \/ PingScard(w)
          \/ PingExpire(w)
          \/ PingPublish(w)

SpecRate == InitRate /\ [][NextRate]_vars

\* pings in an accepted-log, over all ages within the window
RECURSIVE C20_Total(_)
C20_Total(log) ==
    IF log = {} THEN 0
    ELSE LET e == CHOOSE x \in log : TRUE
         IN  e[2] + C20_Total(log \ {e})

\* C20: for each device at most 100 pings are accepted (answered other than
\* 429) within any 60-second period.
C20_AtMost100PerWindow ==
    \A d \in Devices : C20_Total(accepted[d]) <= 100

(***************************************************************************)
(* SpecMarker: the pings of device d1, without speed, handled one at a     *)
(* time while time passes in steps of 100 seconds: the history_saved       *)
(* marker (600 s from the flush) against the device set of the bucket it   *)
(* guards (300 s from the last write to that bucket).                      *)
(***************************************************************************)
MaxMarkerPings == 4

MarkerPingArrive(w) ==
    /\ PingArriveWithin(w, MaxMarkerPings)
    /\ req'[w].device_id = "d1"
    /\ IsNone(req'[w].speed_kmh)

NextMarker ==
    \/ TtlTick
    \/ \E w \in TtlWorkers :
          \/ MarkerPingArrive(w)
          \/ PingRateExpire(w)
          \/ FlushExists(w)
          \/ FlushScard(w)
          \/ FlushLrange(w)
          \/ FlushSave(w)
          \/ FlushSetex(w)
          \/ PingSadd(w)
          \/ PingScard(w)
          \/ PingExpire(w)
          \/ PingPublish(w)

SpecMarker == InitEmpty /\ [][NextMarker]_vars

\* a flush of bucket b has saved and its SETEX is still to come
MarkerInFlight(b) ==
    \E w \in Workers : req[w].bucket - 1 = b /\ req[w].pc = "flush_setex"

\* C21: once a bucket has been saved and its marker set, the bucket is not
\* saved a second time by later pings: as long as the bucket's device set is
\* non-empty its marker is present.
C21_MarkerOutlivesBucket ==
    \A b \in BucketIds :
        /\ Cardinality(SavedRows(b)) <= 1
        /\ (SavedRows(b) # {} /\ redis_sets[b] # {} /\ ~MarkerInFlight(b)) =>
               b \in redis_flags

(***************************************************************************)
(* SpecBatch: single pings (create_ping) and batches (create_pings_batch)  *)
(* of one worker on the Redis keys of one cell; no time passes.  A batch   *)
(* request is one step per round trip to Redis: the INCR of each device's  *)
(* rate check (and the EXPIRE after a counter's first count), the devices  *)
(* taken in the order the set gives them, then the write pipeline and the  *)
(* count pipeline, each executed as one transaction.                       *)
(***************************************************************************)
MaxBatchRequests == 2

MaxBatchLen == 2

BatchPingInputs ==
    {[device_id |-> d, bucket |-> current_bucket(ts), speed_kmh |-> sp] :
        d \in Devices, ts \in TimestampInputs, sp \in PingSpeedInputs}

\* batch.pings
BatchInputs == UNION {[1..n -> BatchPingInputs] : n \in 1..MaxBatchLen}

\* unique_devices = set(p.device_id for p in batch.pings)
unique_devices(pings) == {pings[i].device_id : i \in DOMAIN pings}

\* the commands queued on pipe for each ping, as pipe.execute() applies them
RECURSIVE pipe_execute(_, _)
pipe_execute(st, pings) ==
    IF pings = <<>> THEN st
    ELSE LET p == Head(pings)
             b == p.bucket
             st1 == [st EXCEPT !.sets[b] = SAdd(@, p.device_id),
                               !.ttl[<<"set", b>>] = BUCKET_TTL_SECONDS,
                               !.recorded[b][p.device_id] = @ + 1,
                               !.quiet[b] = 0]
             st2 == IF IsNone(p.speed_kmh) THEN st1
                    ELSE [st1 EXCEPT !.speeds[b] = Append(@, p.speed_kmh),
                                     !.ttl[<<"speeds", b>>] = BUCKET_TTL_SECONDS]
         IN  pipe_execute(st2, Tail(pings))

\* create_pings_batch, the end of one pass of the loop over unique_devices:
\* the next device's check, or after the last one 429 when a device was
\* over its limit, else the write pipeline
batch_next(r) ==
    IF r.todo # {} THEN [r EXCEPT !.pc = "batch_incr"]
    ELSE IF r.limited # {}
    THEN [IdleRequest EXCEPT !.pc = "rejected", !.status = 429,
                             !.seq = r.seq]
    ELSE [r EXCEPT !.pc = "batch_pipe"]

\* create_pings_batch: what check_rate_limit's r.incr for device d returned
\* (rl) taken in: on the counter's first count r.expire follows
batch_after_incr(r, d, rl) ==
    LET r1 == [r EXCEPT !.device_id = d,
                        !.todo = r.todo \ {d},
                        !.limited = IF rl[3] THEN r.limited
                                    ELSE r.limited \cup {d}]
    IN  IF rl[2] THEN [r1 EXCEPT !.pc = "batch_rl_expire"]
        ELSE batch_next(r1)

\* create_pings_batch up to r.incr of the first device's check_rate_limit
BatchArrive(w) ==
    /\ req[w].pc \in {"idle", "done", "rejected", "failed"}
    /\ pings_started < MaxBatchRequests
    /\ \E pings \in BatchInputs : \E d \in unique_devices(pings) :
          LET rl == check_rate_limit(ratelimit[d])
              r0 == [IdleRequest EXCEPT !.pings = pings,
                                        !.todo = unique_devices(pings),
                                        !.bucket = pings[1].bucket,
                                        !.seq = req[w].seq + 1]
          IN  /\ ratelimit' = [ratelimit EXCEPT ![d] = rl[1]]
              /\ req' = [req EXCEPT ![w] = batch_after_incr(r0, d, rl)]
    /\ pings_started' = pings_started + 1
    /\ UNCHANGED <<redis_sets, redis_speeds, redis_flags, redis_ttl, stream,
                   bucket_history, recorded, scoreVars, baseVars, auxVars>>

\* create_pings_batch: r.incr of the next device's check_rate_limit
BatchIncr(w) ==
    /\ req[w].pc = "batch_incr"
    /\ \E d \in req[w].todo :
          LET rl == check_rate_limit(ratelimit[d])
          IN  /\ ratelimit' = [ratelimit EXCEPT ![d] = rl[1]]
              /\ req' = [req EXCEPT ![w] = batch_after_incr(req[w], d, rl)]
    /\ UNCHANGED <<redis_sets, redis_speeds, redis_flags, redis_ttl, stream,
                   bucket_history, pings_started, recorded, scoreVars,
                   baseVars, auxVars>>

\* check_rate_limit in create_pings_batch: r.expire(key, 60) after the
\* counter's first count; EXPIRE does nothing to a key that does not exist
BatchRateExpire(w) ==
    /\ req[w].pc = "batch_rl_expire"
    /\ redis_ttl' = IF ratelimit[req[w].device_id] = 0 THEN redis_ttl
                    ELSE [redis_ttl EXCEPT
                             ![<<"ratelimit", req[w].device_id>>] =
                                 RATE_LIMIT_WINDOW_SECONDS]
    /\ req' = [req EXCEPT ![w] = batch_next(req[w])]
    /\ UNCHANGED <<redis_sets, redis_speeds, redis_flags, ratelimit, stream,
                   bucket_history, pings_started, recorded, scoreVars,
                   baseVars, auxVars>>

\* create_pings_batch: the commands queued for each ping and pipe.execute()
BatchPipeExecute(w) ==
    /\ req[w].pc = "batch_pipe"
    /\ LET st == pipe_execute([sets |-> redis_sets, speeds |-> redis_speeds,
                               ttl |-> redis_ttl, recorded |-> recorded,
                               quiet |-> quiet], req[w].pings)
           devs == unique_devices(req[w].pings)
       IN  /\ redis_sets' = st.sets
           /\ redis_speeds' = st.speeds
           /\ redis_ttl' = st.ttl
           /\ recorded' = st.recorded
           /\ quiet' = st.quiet
           /\ accepted' = [d \in Devices |->
                              IF d \in devs THEN AcceptNow(accepted[d])
                              ELSE accepted[d]]
    /\ req' = [req EXCEPT ![w].pc = "batch_counts"]
    /\ UNCHANGED <<redis_flags, ratelimit, stream, bucket_history,
                   pings_started, scoreVars, baseVars, callVars>>

\* create_pings_batch: count_pipe.execute() (an SCARD per bucket written)
\* and the response, which names the cells whose count is 30 or more: none
\* here.  bucket and device_id are those of the batch's first ping.
BatchCounts(w) ==
    /\ req[w].pc = "batch_counts"
    /\ req' = [req EXCEPT ![w] =
                  [IdleRequest EXCEPT
                      !.pc = "done", !.status = 200,
                      !.bucket = req[w].pings[1].bucket,
                      !.device_id = req[w].pings[1].device_id,
                      !.seq = req[w].seq]]
    /\ UNCHANGED <<redis_sets, redis_speeds, redis_flags, redis_ttl, ratelimit,
                   stream, bucket_history, pings_started, recorded,
                   scoreVars, baseVars, auxVars>>

NextBatch ==
    \E w \in TtlWorkers :
        \/ BatchArrive(w)
        \/ BatchIncr(w)
        \/ BatchRateExpire(w)
        \/ BatchPipeExecute(w)
        \/ BatchCounts(w)
        \/ PingArriveWithin(w, MaxBatchRequests)
        \/ PingRateExpire(w)
        \/ FlushExists(w)
        \/ FlushScard(w)
        \/ FlushLrange(w)
        \/ FlushSave(w)
        \/ FlushSetex(w)
        \/ PingSadd(w)
        \/ PingScard(w)
        \/ PingExpire(w)
        \/ PingRpush(w)
        \/ PingSpeedExpire(w)
        \/ PingPublish(w)

SpecBatch == InitEmpty /\ [][NextBatch]_vars

\* C22: a bucket that recorded at least one device is flushed when the first
\* ping of the following bucket arrives, by the single-ping path or by the
\* batch path: once a request that wrote to bucket b is answered 200, a
\* non-empty bucket b-1 has been through the flush (its marker is set).
C22_FlushOnEitherPath ==
    \A w \in Workers :
        (req[w].pc = "done" /\ req[w].status = 200
            /\ redis_sets[req[w].bucket - 1] # {}) =>
            (req[w].bucket - 1) \in redis_flags

(***************************************************************************)
(* SpecAlert: the pings of one worker on a cell whose bucket 0 already     *)
(* holds 29 devices, one below the alert threshold: those devices' pings   *)
(* have been handled (their set, its expiry and their ping_received events *)
(* are in Redis) and none of them pings again.  No time passes.            *)
(***************************************************************************)
MaxAlertPings == 3

\* the 29 devices already in bucket 0
SeedDevices == {"s" \o ToString(i) : i \in 1..(ALERT_COUNT - 1)}

InitAlert ==
    /\ redis_sets = [b \in BucketIds |-> IF b = 0 THEN SeedDevices ELSE {}]
    /\ redis_speeds = [b \in BucketIds |-> <<>>]
    /\ redis_flags = {}
    /\ ratelimit = [d \in Devices |-> 0]
    /\ redis_ttl = [k \in Keys |->
                       IF k = <<"set", 0>> THEN BUCKET_TTL_SECONDS ELSE -1]
    /\ quiet = [b \in BucketIds |->
                   IF b = 0 THEN 0 ELSE BUCKET_TTL_SECONDS]
    /\ accepted = [d \in Devices |-> {}]
    /\ stream = [i \in 1..(ALERT_COUNT - 1) |->
                    [event_type |-> "ping_received",
                     device_id |-> "s" \o ToString(i),
                     bucket |-> 0, vehicle_count |-> i]]
    /\ bucket_history = <<>>
    /\ req = [w \in Workers |-> IdleRequest]
    /\ pings_started = 0
    /\ recorded = [b \in BucketIds |-> [d \in Devices |-> 0]]
    /\ ScoreIdle
    /\ BaselineIdle
    /\ CallIdle

NextAlert ==
    \E w \in TtlWorkers :
        \/ PingArriveWithin(w, MaxAlertPings)
        \/ PingRateExpire(w)
        \/ FlushExists(w)
        \/ FlushScard(w)
        \/ FlushLrange(w)
        \/ FlushSave(w)
        \/ FlushSetex(w)
        \/ PingSadd(w)
        \/ PingScard(w)
        \/ PingExpire(w)
        \/ PingRpush(w)
        \/ PingSpeedExpire(w)
        \/ PingPublish(w)
        \/ PingAlert(w)

SpecAlert == InitAlert /\ [][NextAlert]_vars

\* C29: a ping publishes a high_congestion alert after its ping_received
\* event only when it raised its bucket's unique-device count from below 30
\* to 30 or more: its device was new to the bucket and the count it read is
\* 30; a ping that found the count at 30 or more publishes one event.
C29_AlertOnCrossing ==
    [][\A w \in Workers :
         LET r == req[w]
             is_new == recorded[r.bucket][r.device_id] = 1
             before == IF is_new THEN r.count - 1 ELSE r.count
         IN  /\ (r.pc = "alert" /\ Steps(w)) =>
                    (before < 30 /\ r.count >= 30)
             /\ (r.pc = "publish" /\ Steps(w) /\ before >= 30) =>
                    req'[w].pc = "done"
    ]_vars
====
